---- MODULE Spec2Model ----
(***************************************************************************)
(* Bakefile: the AST-to-model builder (bkl/interpreter/builder.py) as a    *)
(* state machine over the project model (scopes, variables, targets,       *)
(* configurations), the builder's context and its stack of active          *)
(* conditions; the expression functions of bkl/expr.py (simplify, split,   *)
(* all_possible_values, all_possible_elements, as_py); the output files of *)
(* bkl/io.py; and the dependencies database of bakefile/src/dependencies.py. *)
(***************************************************************************)
EXTENDS Integers, Sequences, FiniteSets, TLC

VARIABLES
    scopes,          \* the model's scopes (modules and targets), in creation order
    configurations,  \* project.configurations, in insertion order
    context,         \* Builder.context: index into scopes, 0 = None
    conds,           \* CondTrackingMixin's stack of active conditions
    stack,           \* the handlers the builder is inside of (handle_children calls)
    trace,           \* the AST nodes handled so far, with the context and condition
    err,             \* the error that ended the build, if any
    submodules,      \* the calls of on_submodule_callback, in order
    deps_db,         \* dependencies.py: (bakefile, format) -> DepsRecord
    modtimes_db,     \* dependencies.py: output file -> recorded time stamp
    cmdlines_db,     \* dependencies.py: (bakefile, format) -> command line
    disk,            \* the files on disk: kind and modification time
    now,             \* time.time(), in half seconds
    dbfile,          \* the content of the saved dependencies database
    answer,          \* the outcome of the last needsUpdate or load
    expr,            \* an expression the functions of bkl/expr.py are called on
    calls,           \* the calls made on it: function, argument and outcome
    output,          \* bkl/io.py: an OutputFile object
    dry_run,         \* bkl/io.py: the module's dry_run
    log,             \* bkl/io.py: the records logged
    raised,          \* the exception the last commit raised, if any
    ran              \* history: the last generation run, None before any

\* The builder's state.
builderVars == <<scopes, configurations, context, conds, stack, trace, err, submodules>>

\* The state of the dependencies database and of its environment.
ledgerVars == <<deps_db, modtimes_db, cmdlines_db, disk, now, dbfile, answer>>

\* The expression worked on.
exprVars == <<expr, calls>>

\* The state of bkl/io.py, and the record of the run that wrote the outputs.
ioVars == <<output, dry_run, log, raised, ran>>

vars == <<builderVars, ledgerVars, exprVars, ioVars>>

\* What the builder's handlers other than on_submodule leave alone.
rest == <<submodules, ledgerVars, exprVars, ioVars>>

----------------------------------------------------------------------------
(* Bounds of the model. *)

\* AST nodes handled per build in the assignment specification
MaxAssignNodes == 4
\* AST nodes handled per build in the target specification
MaxTargetNodes == 4
\* AST nodes handled per build in the configuration specification
MaxConfigNodes == 4
\* modules (.bkl files) per project
MaxModules == 2
\* AST nodes handled per build in the submodule specification
MaxSubmoduleNodes == 3
\* AST nodes handled per build in the source files specification
MaxSourcesNodes == 3
\* the latest time, in half seconds
MaxTime == 2
\* dependencies recorded per (bakefile, format)
MaxDeps == 1
\* outputs recorded per (bakefile, format)
MaxOutputs == 2
\* children of an expression
MaxItems == 3
\* successive calls on an expression
MaxCalls == 2

----------------------------------------------------------------------------
(* Expressions, bkl/expr.py. *)

NullExpr == [t |-> "null"]
LiteralExpr(value) == [t |-> "lit", value |-> value]
ListExpr(items) == [t |-> "list", items |-> items]
ReferenceExpr(var, ctx) == [t |-> "ref", var |-> var, context |-> ctx]
ConcatExpr(items) == [t |-> "concat", items |-> items]
ANCHOR_SRCDIR == "@srcdir"
ANCHOR_TOP_SRCDIR == "@top_srcdir"
PathExpr(components, anchor) == [t |-> "path", components |-> components, anchor |-> anchor]
IfExpr(cond, yes, no) == [t |-> "if", cond |-> cond, yes |-> yes, no |-> no]
BoolExpr(op, left, right) == [t |-> "bool", op |-> op, left |-> left, right |-> right]

\* Python's None where an expression (a condition) is expected
None == [t |-> "None"]

\* sep.join(strs)
RECURSIVE str_join(_, _)
str_join(sep, strs) ==
    IF strs = <<>> THEN ""
    ELSE IF Len(strs) = 1 THEN strs[1]
    ELSE strs[1] \o sep \o str_join(sep, Tail(strs))

\* __str__ of the expression classes
RECURSIVE str(_)
str(e) ==
    CASE e.t = "lit" -> e.value
      [] e.t = "list" -> "[" \o str_join(", ", [i \in 1..Len(e.items) |-> str(e.items[i])]) \o "]"
      [] e.t = "concat" -> str_join("", [i \in 1..Len(e.items) |-> str(e.items[i])])
      [] e.t = "null" -> "null"
      [] e.t = "ref" -> "$(" \o e.var \o ")"
      [] e.t = "path" ->
            e.anchor \o "/" \o
            str_join("/", [i \in 1..Len(e.components) |-> str(e.components[i])])

----------------------------------------------------------------------------
(* AST nodes, as the parser supplies them. *)

LiteralNode(text) == [t |-> "LiteralNode", text |-> text]
ListNode(values) == [t |-> "ListNode", values |-> values]
VarReferenceNode(var) == [t |-> "VarReferenceNode", var |-> var]

AssignmentNode(var, value) ==
    [t |-> "AssignmentNode", var |-> var, value |-> value, append |-> FALSE]
AppendNode(var, value) ==
    [t |-> "AppendNode", var |-> var, value |-> value, append |-> TRUE]
IfNode(cond) == [t |-> "IfNode", cond |-> cond]
TargetNode(type, name) == [t |-> "TargetNode", type |-> type, name |-> name]
ConfigurationNode(name, base, content) ==
    [t |-> "ConfigurationNode", name |-> name, base |-> base, content |-> content]
FilesListNode(kind, files) == [t |-> "FilesListNode", kind |-> kind, files |-> files]
\* filename: node.pos.filename, the file the statement was parsed from
SubmoduleNode(file, filename) ==
    [t |-> "SubmoduleNode", file |-> file, filename |-> filename]

RECURSIVE build_expression(_, _)
build_expression(ast, ctx) ==
    CASE ast.t = "LiteralNode" -> LiteralExpr(ast.text)
      [] ast.t = "VarReferenceNode" -> ReferenceExpr(ast.var, ctx)
      [] ast.t = "ListNode" ->
            ListExpr([i \in 1..Len(ast.values) |-> build_expression(ast.values[i], ctx)])

----------------------------------------------------------------------------
(* The model: variables, scopes, properties. *)

VarNames == {"a", "p"}

AnyType == "AnyType"
ListType == "ListType"
StringType == "StringType"

\* get_variable()/resolve_variable() returning None
NoVar == [type |-> "None", value |-> NullExpr]
Variable(value, type) == [type |-> type, value |-> value]

NoProp == [type |-> "None", default |-> NullExpr]
\* The property registry: "p" is a string-typed property of targets.
get_prop(kind, name) ==
    IF kind = "target" /\ name = "p"
    THEN [type |-> StringType, default |-> LiteralExpr("d")]
    ELSE NoProp

from_property(prop, value) == Variable(value, prop.type)

Module(pos) ==
    [kind |-> "module", parent |-> 0, name |-> "", pos |-> pos, cond |-> None,
     vars |-> [n \in VarNames |-> NoVar], sources |-> <<>>, headers |-> <<>>]
Target(parent, name, pos) ==
    [kind |-> "target", parent |-> parent, name |-> name, pos |-> pos, cond |-> None,
     vars |-> [n \in VarNames |-> NoVar], sources |-> <<>>, headers |-> <<>>]
\* cond: the property _condition, None when not set
SourceFile(parent, filename, cond) ==
    [parent |-> parent, filename |-> filename, cond |-> cond]

get_variable(sc, s, name) == sc[s].vars[name]

RECURSIVE resolve_variable(_, _, _)
resolve_variable(sc, s, name) ==
    IF s = 0 THEN NoVar
    ELSE IF sc[s].vars[name] # NoVar THEN sc[s].vars[name]
    ELSE resolve_variable(sc, sc[s].parent, name)

add_variable(sc, s, name, var) == [sc EXCEPT ![s].vars[name] = var]

----------------------------------------------------------------------------
(* The stack of active conditions (CondTrackingMixin). *)

active_if_cond(cs) == IF cs = <<>> THEN None ELSE cs[Len(cs)]

push_cond(cs, cond) ==
    IF cs = <<>> THEN <<cond>>
    ELSE Append(cs, BoolExpr("AND", cs[Len(cs)], cond))

pop_cond(cs) == SubSeq(cs, 1, Len(cs) - 1)

reset_cond_stack(cs) == [token |-> cs, stack |-> <<>>]

restore_cond_stack(token) == token

----------------------------------------------------------------------------
(* Errors. *)

NoError == [raised |-> FALSE, kind |-> "", msg |-> "", see |-> 0]
ParserError(msg, see) == [raised |-> TRUE, kind |-> "ParserError", msg |-> msg, see |-> see]
Error(msg) == [raised |-> TRUE, kind |-> "Error", msg |-> msg, see |-> 0]
AssertionError(msg) == [raised |-> TRUE, kind |-> "AssertionError", msg |-> msg, see |-> 0]

----------------------------------------------------------------------------
(* bkl/expr.py: the values an expression may take.  An iterator is modelled *)
(* by the values it yields and the error that ends it, if any.              *)

\* ReferenceExpr.get_value(): the value of the variable seen from the
\* reference's context, else the default of the context's property.
get_value(sc, e) ==
    LET var == resolve_variable(sc, e.context, e.var)
        prop == IF e.context = 0 THEN NoProp ELSE get_prop(sc[e.context].kind, e.var)
    IN  IF var # NoVar THEN [err |-> NoError, value |-> var.value]
        ELSE IF prop # NoProp THEN [err |-> NoError, value |-> prop.default]
        ELSE [err |-> Error("unknown variable"), value |-> NullExpr]

\* The first error of a sequence of results, NoError when there is none.
RECURSIVE first_error(_)
first_error(results) ==
    IF results = <<>> THEN NoError
    ELSE IF Head(results).err.raised THEN Head(results).err
    ELSE first_error(Tail(results))

\* simplify's loop over the simplified items of a ConcatExpr: out is the
\* list built so far.
RECURSIVE merge_literals(_, _)
merge_literals(items, out) ==
    IF items = <<>> THEN out
    ELSE LET i == Head(items)
             last == out[Len(out)]
         IN  IF i.t = "lit" /\ last.t = "lit"
             THEN merge_literals(Tail(items),
                                 [out EXCEPT ![Len(out)] = LiteralExpr(last.value \o i.value)])
             ELSE merge_literals(Tail(items), Append(out, i))

\* simplify's test of a reference e with the value ref:
\* isinstance(e, LiteralExpr) or isinstance(e, ReferenceExpr)
replaceable(e, ref) == e.t = "lit" \/ e.t = "ref"

\* The expression simplify returns, or the error it raises.
RECURSIVE simplify(_, _)
simplify(sc, e) ==
    CASE e.t \in {"list", "path", "concat"} ->
            LET children == IF e.t = "path" THEN e.components ELSE e.items
                rs == [i \in 1..Len(children) |-> simplify(sc, children[i])]
                items == [i \in 1..Len(children) |-> rs[i].value]
            IN  IF first_error(rs).raised THEN [err |-> first_error(rs), value |-> NullExpr]
                ELSE [err |-> NoError,
                      value |-> CASE e.t = "list" -> ListExpr(items)
                                  [] e.t = "path" -> PathExpr(items, e.anchor)
                                  [] e.t = "concat" ->
                                        ConcatExpr(merge_literals(Tail(items), <<items[1]>>))]
      [] e.t = "ref" ->
            LET ref == get_value(sc, e)
            IN  IF ref.err.raised THEN [err |-> ref.err, value |-> NullExpr]
                ELSE IF replaceable(e, ref.value) THEN [err |-> NoError, value |-> ref.value]
                ELSE [err |-> NoError, value |-> e]
      [] OTHER -> [err |-> NoError, value |-> e]

\* A generator object, not yet iterated, made by calling all_possible_values(e).
Generator(e) == [t |-> "generator", of |-> e]

\* The sequences with one element of each of seqs, the last varying fastest
\* (itertools.product).
RECURSIVE product(_)
product(seqs) ==
    IF seqs = <<>> THEN << <<>> >>
    ELSE LET tails == product(Tail(seqs))
             RECURSIVE each(_)
             each(heads) ==
                 IF heads = <<>> THEN <<>>
                 ELSE [i \in 1..Len(tails) |-> <<Head(heads)>> \o tails[i]] \o each(Tail(heads))
         IN  each(Head(seqs))

RECURSIVE all_possible_values(_, _)
all_possible_values(sc, e) ==
    CASE e.t = "list" ->
            [err |-> AssertionError("use all_possible_elements() with lists"), values |-> <<>>]
      [] e.t = "lit" -> [err |-> NoError, values |-> <<e>>]
      [] e.t = "ref" ->
            LET ref == get_value(sc, e)
            IN  IF ref.err.raised THEN [err |-> ref.err, values |-> <<>>]
                ELSE [err |-> NoError, values |-> <<Generator(ref.value)>>]
      [] e.t \in {"concat", "path"} ->
            LET children == IF e.t = "concat" THEN e.items ELSE e.components
                possibilities == [i \in 1..Len(children) |-> all_possible_values(sc, children[i])]
                combos == product([i \in 1..Len(children) |-> possibilities[i].values])
            IN  IF first_error(possibilities).raised
                THEN [err |-> first_error(possibilities), values |-> <<>>]
                ELSE [err |-> NoError,
                      values |-> [k \in 1..Len(combos) |->
                                    IF e.t = "concat" THEN ConcatExpr(combos[k])
                                    ELSE PathExpr(combos[k], e.anchor)]]
      [] OTHER ->
            [err |-> Error("cannot determine all possible values of expression"),
             values |-> <<>>]

\* str(v), the key all_possible_elements tells duplicates by; the text of an
\* object that is not an expression holds its address, told by the place
\* <<i, k>> it was made at.
element_key(v, i, k) == IF v.t = "generator" THEN <<"generator", i, k>> ELSE <<str(v)>>

\* The values among vs, the possible values of item i, not in already_added.
RECURSIVE new_elements(_, _, _, _)
new_elements(vs, i, k, already_added) ==
    IF k > Len(vs) THEN [values |-> <<>>, added |-> already_added]
    ELSE LET key == element_key(vs[k], i, k)
         IN  IF key \in already_added THEN new_elements(vs, i, k + 1, already_added)
             ELSE LET more == new_elements(vs, i, k + 1, already_added \cup {key})
                  IN  [values |-> <<vs[k]>> \o more.values, added |-> more.added]

\* The elements yielded from item i on, and the error that ends the iteration.
RECURSIVE elements_from(_, _, _, _)
elements_from(sc, items, i, already_added) ==
    IF i > Len(items) THEN [err |-> NoError, values |-> <<>>]
    ELSE LET ref == IF items[i].t = "ref" THEN get_value(sc, items[i])
                    ELSE [err |-> NoError, value |-> items[i]]
         IN  IF ref.err.raised THEN [err |-> ref.err, values |-> <<>>]
             ELSE IF ref.value.t = "list"
             THEN [err |-> AssertionError("nested lists are supposed to be flattened by now"),
                   values |-> <<>>]
             ELSE LET vs == all_possible_values(sc, ref.value)
                      new == new_elements(vs.values, i, 1, already_added)
                      more == elements_from(sc, items, i + 1, new.added)
                  IN  IF vs.err.raised THEN [err |-> vs.err, values |-> <<>>]
                      ELSE [err |-> more.err, values |-> new.values \o more.values]

all_possible_elements(sc, e) ==
    IF e.t # "list"
    THEN [err |-> AssertionError("not a list"), values |-> <<>>]
    ELSE elements_from(sc, e.items, 1, {})

\* The possible elements of a list with the condition each is there under.
enum_possible_values(sc, e, global_cond) ==
    LET r == all_possible_elements(sc, e)
    IN  [err |-> r.err,
         values |-> [i \in 1..Len(r.values) |-> [cond |-> global_cond, value |-> r.values[i]]]]

----------------------------------------------------------------------------
(* Builder.on_assignment, as a function of the scopes, the current scope s, *)
(* the active condition and the node.  The result is the scopes as the      *)
(* statement leaves them and the error it raised, if any.                   *)

\* The variable created from the property of that name, if there is one.
property_variable(sc, s, name, append, has_cond) ==
    LET prop == get_prop(sc[s].kind, name)
    IN  IF prop = NoProp THEN NoVar
        ELSE from_property(prop, IF append \/ has_cond THEN prop.default ELSE NullExpr)

\* wrap_value with a conditional append of a list kept together in one IfExpr.
wrap_value_whole_list(value, append, cond, previous_value) ==
    IF cond = None THEN value
    ELSE IF append
         THEN IfExpr(cond, value, NullExpr)
         ELSE IfExpr(cond, value,
                     IF previous_value # NoVar THEN previous_value.value ELSE NullExpr)

\* wrap_value with the previous value of a conditional set forgotten.
wrap_value_no_previous(value, append, cond, previous_value) ==
    IF cond = None THEN value
    ELSE IF append /\ value.t = "list"
         THEN ListExpr([i \in 1..Len(value.items) |->
                           IfExpr(cond, value.items[i], NullExpr)])
         ELSE IfExpr(cond, value, NullExpr)

\* The value as modified to reflect the condition it is set under.
wrap_value(value, append, cond, previous_value) ==
    IF cond = None THEN value
    ELSE IF append
         THEN IF value.t = "list"
              THEN ListExpr([i \in 1..Len(value.items) |->
                                IfExpr(cond, value.items[i], NullExpr)])
              ELSE IfExpr(cond, value, NullExpr)
         ELSE IfExpr(cond, value,
                     IF previous_value # NoVar THEN previous_value.value ELSE NullExpr)

\* create_variable with the new variable never seeded with a previous one.
create_variable_unseeded(sc, s, name, var, previous_value, value, append) ==
    IF var # NoVar THEN [err |-> NoError, scopes |-> sc, var |-> var]
    ELSE IF append /\ previous_value = NoVar
         THEN [err |-> ParserError("unknown variable", 0), scopes |-> sc, var |-> NoVar]
         ELSE LET v == Variable(value, AnyType)
              IN  [err |-> NoError, scopes |-> add_variable(sc, s, name, v), var |-> v]

\* create_variable without the check for an unknown variable.
create_variable_lenient(sc, s, name, var, previous_value, value, append) ==
    IF var # NoVar THEN [err |-> NoError, scopes |-> sc, var |-> var]
    ELSE LET v == IF previous_value # NoVar
                  THEN Variable(previous_value.value, previous_value.type)
                  ELSE Variable(value, AnyType)
         IN  [err |-> NoError, scopes |-> add_variable(sc, s, name, v), var |-> v]

\* create_variable with the variable added before the check.
create_variable_early(sc, s, name, var, previous_value, value, append) ==
    IF var # NoVar THEN [err |-> NoError, scopes |-> sc, var |-> var]
    ELSE LET v == IF previous_value # NoVar
                  THEN Variable(previous_value.value, previous_value.type)
                  ELSE Variable(value, AnyType)
         IN  IF append /\ previous_value = NoVar
             THEN [err |-> ParserError("unknown variable", 0),
                   scopes |-> add_variable(sc, s, name, v), var |-> NoVar]
             ELSE [err |-> NoError, scopes |-> add_variable(sc, s, name, v), var |-> v]

\* "create the variable if necessary"
create_variable(sc, s, name, var, previous_value, value, append) ==
    IF var # NoVar THEN [err |-> NoError, scopes |-> sc, var |-> var]
    ELSE IF append /\ previous_value = NoVar
         THEN [err |-> ParserError("unknown variable", 0), scopes |-> sc, var |-> NoVar]
         ELSE LET v == IF previous_value # NoVar
                       THEN Variable(previous_value.value, previous_value.type)
                       ELSE Variable(value, AnyType)
              IN  [err |-> NoError, scopes |-> add_variable(sc, s, name, v), var |-> v]

\* The list an append makes of the previous value and the new one.
append_value(previous_value, value) ==
    LET new_values == IF value.t = "list" THEN value.items ELSE <<value>>
    IN  IF previous_value.value.t = "list"
        THEN ListExpr(previous_value.value.items \o new_values)
        ELSE ListExpr(<<previous_value.value>> \o new_values)

\* append_type without the promotion of AnyType.
append_type_keeps_any(type) ==
    IF type = ListType THEN ListType
    ELSE IF type = AnyType THEN AnyType
    ELSE ""

\* The type of the variable after an append, "" if it cannot be appended to.
append_type(type) ==
    IF type = ListType THEN ListType
    ELSE IF type = AnyType THEN ListType
    ELSE ""

\* "finally, modify variable value"
modify_variable(sc, s, name, var, previous_value, value, append) ==
    IF append
    THEN IF append_type(var.type) = ""
         THEN [err |-> ParserError("cannot append to non-list variable", 0), scopes |-> sc]
         ELSE [err |-> NoError,
               scopes |-> add_variable(sc, s, name,
                              Variable(append_value(previous_value, value),
                                       append_type(var.type)))]
    ELSE [err |-> NoError,
          scopes |-> add_variable(sc, s, name, Variable(value, var.type))]

on_assignment(sc, s, cond, node) ==
    LET append == node.append
        value == build_expression(node.value, s)
        has_cond == cond # None
        varname == node.var
        var0 == get_variable(sc, s, varname)
        previous0 == IF var0 = NoVar THEN resolve_variable(sc, s, varname) ELSE var0
        propvar == IF var0 = NoVar
                   THEN property_variable(sc, s, varname, append, has_cond)
                   ELSE NoVar
        var1 == IF propvar # NoVar THEN propvar ELSE var0
        sc1 == IF propvar # NoVar THEN add_variable(sc, s, varname, propvar) ELSE sc
        previous_value == IF propvar # NoVar /\ previous0 = NoVar THEN propvar ELSE previous0
        value1 == wrap_value(value, append, cond, previous_value)
        created == create_variable(sc1, s, varname, var1, previous_value, value1, append)
    IN  IF created.err.raised
        THEN [err |-> created.err, scopes |-> created.scopes]
        ELSE modify_variable(created.scopes, s, varname, created.var,
                             previous_value, value1, append)

----------------------------------------------------------------------------
(* Builder.on_target. *)

TargetTypes == {"exe"}

has_target(sc, name) == \E i \in 1..Len(sc) : sc[i].kind = "target" /\ sc[i].name = name

get_target(sc, name) ==
    sc[CHOOSE i \in 1..Len(sc) : sc[i].kind = "target" /\ sc[i].name = name]

\* target_exists looking at the targets of the current module only.
target_exists_in_module(sc, s, name) ==
    \E i \in 1..Len(sc) : sc[i].kind = "target" /\ sc[i].name = name /\ sc[i].parent = s

\* "self.context.project.has_target(name)": the project of the current scope
\* holds the targets of all its modules.
target_exists(sc, s, name) == has_target(sc, name)

\* The _condition a target declared under the active condition gets.
target_condition(cond) == cond

on_target(sc, s, cond, node, pos) ==
    IF target_exists(sc, s, node.name)
    THEN [err |-> ParserError("target already exists", get_target(sc, node.name).pos),
          scopes |-> sc]
    ELSE IF node.type \notin TargetTypes
         THEN [err |-> ParserError("unknown target type", 0), scopes |-> sc]
         ELSE [err |-> NoError,
               scopes |-> Append(sc, [Target(s, node.name, pos)
                                        EXCEPT !.cond = target_condition(cond)])]

\* target_body_conds without the reset.
target_body_conds_kept(cs) == cs

\* The stack of conditions the body of a target is handled with.
target_body_conds(cs) == reset_cond_stack(cs).stack

\* No condition is active after the body.
after_target_conds_empty(token) == <<>>

\* The stack of conditions after the body of a target.
after_target_conds(token) == restore_cond_stack(token)

----------------------------------------------------------------------------
(* Builder.on_configuration. *)

Predefined == {"Debug", "Release"}

Configuration(name, base, definition, pos) ==
    [name |-> name, base |-> base, definition |-> definition, pos |-> pos]

has_configuration(cfgs, name) == \E i \in 1..Len(cfgs) : cfgs[i].name = name

get_configuration(cfgs, name) == cfgs[CHOOSE i \in 1..Len(cfgs) : cfgs[i].name = name]

clone(base, name, pos) == Configuration(name, base.name, base.definition, pos)

add_configuration(cfgs, cfg) == Append(cfgs, cfg)

\* config_definition with the own block before the inherited one.
config_definition_own_first(cfgs, node) ==
    IF node.base # ""
    THEN node.content \o get_configuration(cfgs, node.base).definition
    ELSE node.content

\* "cfg._definition = ..."
config_definition(cfgs, node) ==
    IF node.base # ""
    THEN get_configuration(cfgs, node.base).definition \o node.content
    ELSE node.content

set_definition(cfgs, name, definition) ==
    [i \in 1..Len(cfgs) |->
        IF cfgs[i].name = name THEN [cfgs[i] EXCEPT !.definition = definition] ELSE cfgs[i]]

\* register_configuration without the check that the name is new.
register_configuration_again(cfgs, node, pos) ==
    IF node.name \in Predefined
    THEN IF node.base # ""
         THEN [err |-> ParserError("Debug and Release configurations can't be derived from another", 0),
               configurations |-> cfgs]
         ELSE [err |-> NoError, configurations |-> cfgs]
    ELSE IF node.base = ""
         THEN [err |-> ParserError("configurations other than Debug and Release must derive from another", 0),
               configurations |-> cfgs]
         ELSE IF ~has_configuration(cfgs, node.base)
              THEN [err |-> ParserError("unknown base configuration", 0),
                    configurations |-> cfgs]
              ELSE [err |-> NoError,
                    configurations |->
                        add_configuration(cfgs,
                            clone(get_configuration(cfgs, node.base), node.name, pos))]

\* The checks and the registration of the configuration; base "" is no base.
register_configuration(cfgs, node, pos) ==
    IF node.name \in Predefined
    THEN IF node.base # ""
         THEN [err |-> ParserError("Debug and Release configurations can't be derived from another", 0),
               configurations |-> cfgs]
         ELSE [err |-> NoError, configurations |-> cfgs]
    ELSE IF node.base = ""
         THEN [err |-> ParserError("configurations other than Debug and Release must derive from another", 0),
               configurations |-> cfgs]
         ELSE IF has_configuration(cfgs, node.name)
              THEN [err |-> ParserError("configuration already defined",
                                        get_configuration(cfgs, node.name).pos),
                    configurations |-> cfgs]
              ELSE IF ~has_configuration(cfgs, node.base)
                   THEN [err |-> ParserError("unknown base configuration", 0),
                         configurations |-> cfgs]
                   ELSE [err |-> NoError,
                         configurations |->
                             add_configuration(cfgs,
                                 clone(get_configuration(cfgs, node.base), node.name, pos))]

on_configuration(cfgs, node, pos) ==
    LET r == register_configuration(cfgs, node, pos)
    IN  IF r.err.raised THEN r
        ELSE [err |-> NoError,
              configurations |-> set_definition(r.configurations, node.name,
                                     config_definition(r.configurations, node))]

config_cond(node, ctx) ==
    BoolExpr("EQUAL", ReferenceExpr("config", ctx), LiteralExpr(node.name))

----------------------------------------------------------------------------
(* Builder.on_sources_or_headers.  The result is the scopes as the          *)
(* statement leaves them and the error that ended it, if any.               *)

filelist_insert_first(filelist, obj) == <<obj>> \o filelist

\* filelist.append(obj)
filelist_append(filelist, obj) == Append(filelist, obj)

\* The loop over the possible values: one SourceFile appended for each.
RECURSIVE append_files(_, _, _)
append_files(filelist, s, values) ==
    IF values = <<>> THEN filelist
    ELSE append_files(filelist_append(filelist,
                                      SourceFile(s, Head(values).value, Head(values).cond)),
                      s, Tail(values))

on_sources_or_headers(sc, s, cond, node) ==
    LET files == build_expression(node.files, s)
        r == enum_possible_values(sc, files, cond)
    IN  [err |-> r.err,
         scopes |->
            IF node.kind = "sources"
            THEN [sc EXCEPT ![s].sources = append_files(sc[s].sources, s, r.values)]
            ELSE [sc EXCEPT ![s].headers = append_files(sc[s].headers, s, r.values)]]

----------------------------------------------------------------------------
(* Builder.on_submodule.  File names are sequences of path components; an   *)
(* absolute one starts with the component "/".                              *)

\* os.getcwd(), without the root
cwd == <<"proj">>

isabs(path) == path # <<>> /\ path[1] = "/"

dirname(path) == SubSeq(path, 1, Len(path) - 1)

join(a, b) == IF isabs(b) THEN b ELSE a \o b

\* os.path.normpath of the components after the root: "." and "" are
\* dropped, ".." removes the component before it (nothing at the root).
RECURSIVE normpath_abs(_, _)
normpath_abs(comps, out) ==
    IF comps = <<>> THEN out
    ELSE LET c == Head(comps)
         IN  IF c = "." \/ c = "" THEN normpath_abs(Tail(comps), out)
             ELSE IF c = ".."
                  THEN normpath_abs(Tail(comps),
                                    IF out = <<>> THEN out ELSE SubSeq(out, 1, Len(out) - 1))
             ELSE normpath_abs(Tail(comps), Append(out, c))

\* os.path.abspath, as the components after the root
abspath(path) ==
    IF isabs(path) THEN normpath_abs(Tail(path), <<>>)
    ELSE normpath_abs(cwd \o path, <<>>)

\* len(os.path.commonprefix([start_list, path_list]))
RECURSIVE commonprefix(_, _)
commonprefix(a, b) ==
    IF a = <<>> \/ b = <<>> \/ Head(a) # Head(b) THEN 0
    ELSE 1 + commonprefix(Tail(a), Tail(b))

\* os.path.relpath(path), relative to the current directory
relpath(path) ==
    LET start_list == abspath(<<>>)
        path_list == abspath(path)
        i == commonprefix(start_list, path_list)
        rel_list == [k \in 1..(Len(start_list) - i) |-> ".."] \o
                    SubSeq(path_list, i + 1, Len(path_list))
    IN  IF rel_list = <<>> THEN <<".">> ELSE rel_list

\* The result is the error raised, if any, and the calls of the callback made.
on_submodule_call_first(cond, node) ==
    LET fn == relpath(join(dirname(node.filename), node.file))
    IN  IF cond # None
        THEN [err |-> ParserError("conditionally included submodules not supported yet", 0),
              calls |-> <<fn>>]
        ELSE [err |-> NoError, calls |-> <<fn>>]

on_submodule(cond, node) ==
    IF cond # None
    THEN [err |-> ParserError("conditionally included submodules not supported yet", 0),
          calls |-> <<>>]
    ELSE [err |-> NoError,
          calls |-> <<relpath(join(dirname(node.filename), node.file))>>]

----------------------------------------------------------------------------
(* bakefile/src/dependencies.py: the dependencies database.  Times are in   *)
(* half seconds: a file's st_mtime is any of them, int(time.time()) a whole *)
(* second.                                                                  *)

DEPS_FORMAT_VERSION == 4

DepsRecord == [deps |-> <<>>, outputs |-> <<>>]

\* An empty dict
EmptyDb == [k \in {} |-> 0]

\* db[key] = value
setitem(db, key, value) ==
    [k \in DOMAIN db \cup {key} |-> IF k = key THEN value ELSE db[k]]

\* int(time.time())
int_time(t) == (t \div 2) * 2

NoFile == [kind |-> "none", mtime |-> 0]
RegularFile(mtime) == [kind |-> "file", mtime |-> mtime]
Directory(mtime) == [kind |-> "dir", mtime |-> mtime]

\* os.path.isfile(f)
isfile(dsk, f) == dsk[f].kind = "file"
\* os.stat(f) succeeds
exists(dsk, f) == dsk[f].kind # "none"

OSError == [raised |-> TRUE, kind |-> "OSError", msg |-> "No such file or directory", see |-> 0]
IOError == [raised |-> TRUE, kind |-> "IOError", msg |-> "", see |-> 0]

\* The deps_db addDependency leaves.
addDependency(deps, bakefile, format, dependency_file) ==
    LET key == <<bakefile, format>>
        db == IF key \in DOMAIN deps THEN deps ELSE setitem(deps, key, DepsRecord)
    IN  IF bakefile = dependency_file THEN deps
        ELSE [db EXCEPT ![key].deps = Append(@, dependency_file)]

\* The deps_db and modtimes_db addOutput leaves, called at time t.
addOutput(deps, modtimes, bakefile, format, output_file, output_method, t) ==
    LET key == <<bakefile, format>>
        db == IF key \in DOMAIN deps THEN deps ELSE setitem(deps, key, DepsRecord)
    IN  [deps |-> [db EXCEPT ![key].outputs = Append(@, <<output_file, output_method>>)],
         modtimes |-> setitem(modtimes, output_file, int_time(t))]

\* The cmdlines_db addCmdLine leaves.
addCmdLine(cmdlines, bakefile, format, cmdline) ==
    setitem(cmdlines, <<bakefile, format>>, cmdline)

\* The file save writes.
save(deps, modtimes, cmdlines) ==
    [version |-> DEPS_FORMAT_VERSION, deps |-> deps, modtimes |-> modtimes,
     cmdlines |-> cmdlines]

loadDb_memory_wins(db, orig_db) ==
    IF DOMAIN orig_db = {} THEN db
    ELSE [k \in DOMAIN orig_db \cup DOMAIN db |->
            IF k \in DOMAIN orig_db THEN orig_db[k] ELSE db[k]]

\* load's __loadDb, db being what cPickle.load read
loadDb(db, orig_db) ==
    IF DOMAIN orig_db = {} THEN db
    ELSE [k \in DOMAIN orig_db \cup DOMAIN db |-> IF k \in DOMAIN db THEN db[k] ELSE orig_db[k]]

load_check_last(deps, modtimes, cmdlines, file) ==
    IF file = None
    THEN [err |-> IOError, deps |-> deps, modtimes |-> modtimes, cmdlines |-> cmdlines]
    ELSE [err |-> IF file.version # DEPS_FORMAT_VERSION THEN IOError ELSE NoError,
          deps |-> loadDb(file.deps, deps),
          modtimes |-> loadDb(file.modtimes, modtimes),
          cmdlines |-> loadDb(file.cmdlines, cmdlines)]

\* The three maps load leaves, and the error it raises, if any; file is the
\* content of the file, None when there is no such file.
load(deps, modtimes, cmdlines, file) ==
    IF file = None \/ file.version # DEPS_FORMAT_VERSION
    THEN [err |-> IOError, deps |-> deps, modtimes |-> modtimes, cmdlines |-> cmdlines]
    ELSE [err |-> NoError,
          deps |-> loadDb(file.deps, deps),
          modtimes |-> loadDb(file.modtimes, modtimes),
          cmdlines |-> loadDb(file.cmdlines, cmdlines)]

\* Where a time is expected and there is none (oldest_output = None).
NoTime == -1
\* Where a returned value is expected and nothing was returned.
NoReturn == -1

\* needsUpdate's loop over info.outputs from the i-th on: ret is the value
\* returned from inside the loop (NoReturn: the loop ended), oldest the
\* oldest_output it leaves (NoTime: none yet).
RECURSIVE scan_outputs(_, _, _, _, _)
scan_outputs(modtimes, dsk, outputs, i, oldest) ==
    IF i > Len(outputs) THEN [ret |-> NoReturn, oldest |-> oldest]
    ELSE LET f == outputs[i][1]
             disk_time == dsk[f].mtime
             f_time == IF f \in DOMAIN modtimes /\ modtimes[f] > disk_time
                       THEN modtimes[f] ELSE disk_time
         IN  IF ~isfile(dsk, f) THEN [ret |-> 1, oldest |-> oldest]
             ELSE scan_outputs(modtimes, dsk, outputs, i + 1,
                               IF oldest = NoTime \/ f_time < oldest THEN f_time ELSE oldest)

\* needsUpdate's loop over info.deps from the i-th on: the value returned
\* from inside the loop, NoReturn when the loop ends.
RECURSIVE scan_deps(_, _, _, _)
scan_deps(dsk, deps, i, oldest_output) ==
    IF i > Len(deps) THEN NoReturn
    ELSE IF ~isfile(dsk, deps[i]) THEN 1
    ELSE IF oldest_output < dsk[deps[i]].mtime THEN 1
    ELSE scan_deps(dsk, deps, i + 1, oldest_output)

\* needsUpdate once the key is known with the same command line: the
\* comparison of the times.
compare_times(deps, modtimes, dsk, bakefile, format) ==
    LET key == <<bakefile, format>>
        outs == scan_outputs(modtimes, dsk, deps[key].outputs, 1, NoTime)
        ins == scan_deps(dsk, deps[key].deps, 1, outs.oldest)
    IN  IF ~exists(dsk, bakefile) THEN [err |-> OSError, value |-> NoReturn]
        ELSE IF outs.ret # NoReturn THEN [err |-> NoError, value |-> outs.ret]
        ELSE IF outs.oldest = NoTime THEN [err |-> NoError, value |-> 1]
        ELSE IF outs.oldest < dsk[bakefile].mtime THEN [err |-> NoError, value |-> 1]
        ELSE IF ins # NoReturn THEN [err |-> NoError, value |-> ins]
        ELSE [err |-> NoError, value |-> 0]

needsUpdate_stat_first(deps, modtimes, cmdlines, dsk, bakefile, format, cmdline) ==
    LET key == <<bakefile, format>>
    IN  IF ~exists(dsk, bakefile) THEN [err |-> OSError, value |-> NoReturn]
        ELSE IF key \notin DOMAIN deps \/ key \notin DOMAIN cmdlines
        THEN [err |-> NoError, value |-> 1]
        ELSE IF cmdline # cmdlines[key] THEN [err |-> NoError, value |-> 1]
        ELSE compare_times(deps, modtimes, dsk, bakefile, format)

\* The value needsUpdate returns (1 or 0), or the error it raises.
needsUpdate(deps, modtimes, cmdlines, dsk, bakefile, format, cmdline) ==
    LET key == <<bakefile, format>>
    IN  IF key \notin DOMAIN deps \/ key \notin DOMAIN cmdlines
        THEN [err |-> NoError, value |-> 1]
        ELSE IF cmdline # cmdlines[key] THEN [err |-> NoError, value |-> 1]
        ELSE compare_times(deps, modtimes, dsk, bakefile, format)

\* The module as imported: three empty dicts.
LedgerInit ==
    /\ deps_db = EmptyDb
    /\ modtimes_db = EmptyDb
    /\ cmdlines_db = EmptyDb
    /\ disk = [f \in {} |-> NoFile]
    /\ now = 0
    /\ dbfile = None
    /\ answer = None

----------------------------------------------------------------------------
(* The builder. *)

\* Project(): the predefined configurations.
BuilderInit ==
    /\ scopes = <<>>
    /\ configurations = <<Configuration("Debug", "", <<>>, 0),
                          Configuration("Release", "", <<>>, 0)>>
    /\ context = 0
    /\ conds = <<>>
    /\ stack = <<>>
    /\ trace = <<>>
    /\ err = NoError
    /\ submodules = <<>>

\* No expression is being worked on.
ExprInit ==
    /\ expr = NullExpr
    /\ calls = <<>>

\* bkl/io.py as imported; no OutputFile has been made.
IoInit ==
    /\ output = None
    /\ dry_run = FALSE
    /\ log = <<>>
    /\ raised = NoError
    /\ ran = None

Init == BuilderInit /\ LedgerInit /\ ExprInit /\ IoInit

\* A handler the builder is inside of: its node, the context it restores on
\* exit (ctx), the context of its children (scope), the saved stack of
\* conditions (a target) and the children still to handle (a configuration).
Frame(kind, node, ctx, scope, saved, todo) ==
    [kind |-> kind, node |-> node, ctx |-> ctx, scope |-> scope, saved |-> saved, todo |-> todo]

NoNode == [t |-> "None"]

top == stack[Len(stack)]

\* The record of a handled node; nested: the node is a statement of a
\* configuration's definition.
Event(node, nested) ==
    [node |-> node, context |-> context, cond |-> active_if_cond(conds),
     pos |-> Len(trace) + 1, nested |-> nested]

\* The number of nodes handled that are not part of a configuration.
Handled == Cardinality({i \in 1..Len(trace) : ~trace[i].nested})

\* The builder is inside a block whose statements come from the parser.
InBlock == ~err.raised /\ stack # <<>> /\ top.kind # "config"

\* An error leaves through every handle_children, each restoring its context.
Raise(e) ==
    /\ err' = e
    /\ stack' = <<>>
    /\ context' = stack[1].ctx

Modules == {i \in 1..Len(scopes) : scopes[i].kind = "module"}

create_model(maxmodules) ==
    /\ UNCHANGED rest
    /\ ~err.raised
    /\ stack = <<>>
    /\ Cardinality(Modules) < maxmodules
    /\ scopes' = Append(scopes, Module(Len(trace) + 1))
    /\ context' = Len(scopes) + 1
    /\ stack' = <<Frame("module", NoNode, Len(scopes) + 1, Len(scopes) + 1, <<>>, <<>>)>>
    /\ UNCHANGED <<configurations, conds, trace, err>>

end_model ==
    /\ UNCHANGED rest
    /\ InBlock
    /\ top.kind = "module"
    /\ stack' = <<>>
    /\ context' = top.ctx
    /\ UNCHANGED <<scopes, configurations, conds, trace, err>>

\* _handle_node on an assignment or append node; stk is the stack it leaves.
handle_assignment(node, nested, stk) ==
    LET r == on_assignment(scopes, context, active_if_cond(conds), node)
    IN  /\ UNCHANGED rest
        /\ scopes' = r.scopes
        /\ trace' = Append(trace, Event(node, nested))
        /\ IF r.err.raised THEN Raise(r.err)
           ELSE stack' = stk /\ UNCHANGED <<err, context>>
        /\ UNCHANGED <<configurations, conds>>

assignment(nodes, maxnodes) ==
    /\ InBlock
    /\ Handled < maxnodes
    /\ \E node \in nodes : handle_assignment(node, FALSE, stack)

if_block(nodes, maxnodes) ==
    /\ UNCHANGED rest
    /\ InBlock
    /\ Handled < maxnodes
    /\ \E node \in nodes :
        /\ conds' = push_cond(conds, build_expression(node.cond, context))
        /\ stack' = Append(stack, Frame("if", node, context, context, <<>>, <<>>))
        /\ trace' = Append(trace, Event(node, FALSE))
    /\ UNCHANGED <<scopes, configurations, context, err>>

end_if ==
    /\ UNCHANGED rest
    /\ InBlock
    /\ top.kind = "if"
    /\ stack' = SubSeq(stack, 1, Len(stack) - 1)
    /\ context' = top.ctx
    /\ conds' = pop_cond(conds)
    /\ UNCHANGED <<scopes, configurations, trace, err>>

target(nodes, maxnodes) ==
    /\ UNCHANGED rest
    /\ InBlock
    /\ Handled < maxnodes
    /\ scopes[context].kind = "module"
    /\ \E node \in nodes :
        LET r == on_target(scopes, context, active_if_cond(conds), node, Len(trace) + 1)
        IN  /\ scopes' = r.scopes
            /\ trace' = Append(trace, Event(node, FALSE))
            /\ IF r.err.raised
               THEN Raise(r.err) /\ UNCHANGED conds
               ELSE /\ conds' = target_body_conds(conds)
                    /\ stack' = Append(stack,
                                   Frame("target", node, context, Len(scopes) + 1,
                                         reset_cond_stack(conds).token, <<>>))
                    /\ context' = Len(scopes) + 1
                    /\ UNCHANGED err
    /\ UNCHANGED configurations

end_target ==
    /\ UNCHANGED rest
    /\ InBlock
    /\ top.kind = "target"
    /\ stack' = SubSeq(stack, 1, Len(stack) - 1)
    /\ context' = top.ctx
    /\ conds' = after_target_conds(top.saved)
    /\ UNCHANGED <<scopes, configurations, trace, err>>

configuration(nodes, maxnodes) ==
    /\ UNCHANGED rest
    /\ InBlock
    /\ Handled < maxnodes
    /\ \E node \in nodes :
        LET r == on_configuration(configurations, node, Len(trace) + 1)
        IN  /\ configurations' = r.configurations
            /\ trace' = Append(trace, Event(node, FALSE))
            /\ IF r.err.raised
               THEN Raise(r.err) /\ UNCHANGED conds
               ELSE /\ conds' = push_cond(conds, config_cond(node, context))
                    /\ stack' = Append(stack,
                                   Frame("config", node, context, context, <<>>,
                                         get_configuration(r.configurations, node.name).definition))
                    /\ UNCHANGED <<err, context>>
    /\ UNCHANGED scopes

\* _handle_node on a sources or headers node.
files_list(nodes, maxnodes) ==
    /\ InBlock
    /\ Handled < maxnodes
    /\ UNCHANGED rest
    /\ \E node \in nodes :
        LET r == on_sources_or_headers(scopes, context, active_if_cond(conds), node)
        IN  /\ scopes' = r.scopes
            /\ trace' = Append(trace, Event(node, FALSE))
            /\ IF r.err.raised THEN Raise(r.err)
               ELSE UNCHANGED <<stack, err, context>>
    /\ UNCHANGED <<configurations, conds>>

\* _handle_node on a submodule node; stk is the stack it leaves.
handle_submodule(node, nested, stk) ==
    LET r == on_submodule(active_if_cond(conds), node)
    IN  /\ submodules' = submodules \o r.calls
        /\ trace' = Append(trace, Event(node, nested))
        /\ IF r.err.raised THEN Raise(r.err)
           ELSE stack' = stk /\ UNCHANGED <<err, context>>
        /\ UNCHANGED <<scopes, configurations, conds, ledgerVars, exprVars, ioVars>>

submodule(nodes, maxnodes) ==
    /\ InBlock
    /\ Handled < maxnodes
    /\ \E node \in nodes : handle_submodule(node, FALSE, stack)

\* The next statement of the configuration's definition, a submodule.
configuration_submodule ==
    /\ ~err.raised
    /\ stack # <<>>
    /\ top.kind = "config"
    /\ top.todo # <<>>
    /\ Head(top.todo).t = "SubmoduleNode"
    /\ handle_submodule(Head(top.todo), TRUE,
                        [stack EXCEPT ![Len(stack)].todo = Tail(top.todo)])

\* The next statement of the configuration's definition, an assignment.
configuration_child ==
    /\ ~err.raised
    /\ stack # <<>>
    /\ top.kind = "config"
    /\ top.todo # <<>>
    /\ Head(top.todo).t \in {"AssignmentNode", "AppendNode"}
    /\ handle_assignment(Head(top.todo), TRUE,
                         [stack EXCEPT ![Len(stack)].todo = Tail(top.todo)])

end_configuration ==
    /\ UNCHANGED rest
    /\ ~err.raised
    /\ stack # <<>>
    /\ top.kind = "config"
    /\ top.todo = <<>>
    /\ stack' = SubSeq(stack, 1, Len(stack) - 1)
    /\ context' = top.ctx
    /\ conds' = pop_cond(conds)
    /\ UNCHANGED <<scopes, configurations, trace, err>>

----------------------------------------------------------------------------
(* The callers of dependencies.py and the file system around it. *)

\* What the operations on the dependencies database leave alone.
outsideLedger == <<builderVars, exprVars, ioVars>>

\* The outcome of a call of needsUpdate.
Answer(bakefile, format, cmdline, r) ==
    [op |-> "needsUpdate", bakefile |-> bakefile, format |-> format, cmdline |-> cmdline,
     err |-> r.err, value |-> r.value]

add_dependency(bakefiles, formats, files) ==
    /\ \E b \in bakefiles, f \in formats, d \in files :
        /\ <<b, f>> \in DOMAIN deps_db => Len(deps_db[<<b, f>>].deps) < MaxDeps
        /\ deps_db' = addDependency(deps_db, b, f, d)
    /\ answer' = None
    /\ UNCHANGED <<modtimes_db, cmdlines_db, disk, now, dbfile, outsideLedger>>

add_output(bakefiles, formats, files, methods) ==
    /\ \E b \in bakefiles, f \in formats, o \in files, m \in methods :
        LET r == addOutput(deps_db, modtimes_db, b, f, o, m, now)
        IN  /\ <<b, f>> \in DOMAIN deps_db => Len(deps_db[<<b, f>>].outputs) < MaxOutputs
            /\ deps_db' = r.deps
            /\ modtimes_db' = r.modtimes
    /\ answer' = None
    /\ UNCHANGED <<cmdlines_db, disk, now, dbfile, outsideLedger>>

add_cmdline(bakefiles, formats, cmdlines) ==
    /\ \E b \in bakefiles, f \in formats, c \in cmdlines :
        cmdlines_db' = addCmdLine(cmdlines_db, b, f, c)
    /\ answer' = None
    /\ UNCHANGED <<deps_db, modtimes_db, disk, now, dbfile, outsideLedger>>

save_db ==
    /\ dbfile' = save(deps_db, modtimes_db, cmdlines_db)
    /\ answer' = None
    /\ UNCHANGED <<deps_db, modtimes_db, cmdlines_db, disk, now, outsideLedger>>

\* A file left by a program of another format version.
save_other_version(versions) ==
    /\ \E v \in versions :
        dbfile' = [save(deps_db, modtimes_db, cmdlines_db) EXCEPT !.version = v]
    /\ answer' = None
    /\ UNCHANGED <<deps_db, modtimes_db, cmdlines_db, disk, now, outsideLedger>>

load_db ==
    LET r == load(deps_db, modtimes_db, cmdlines_db, dbfile)
    IN  /\ deps_db' = r.deps
        /\ modtimes_db' = r.modtimes
        /\ cmdlines_db' = r.cmdlines
        /\ answer' = [op |-> "load", err |-> r.err]
        /\ UNCHANGED <<disk, now, dbfile, outsideLedger>>

needs_update(bakefiles, formats, cmdlines) ==
    /\ \E b \in bakefiles, f \in formats, c \in cmdlines :
        answer' = Answer(b, f, c, needsUpdate(deps_db, modtimes_db, cmdlines_db, disk, b, f, c))
    /\ UNCHANGED <<deps_db, modtimes_db, cmdlines_db, disk, now, dbfile, outsideLedger>>

\* A new run of the program: the module is imported again.
restart ==
    /\ deps_db' = EmptyDb
    /\ modtimes_db' = EmptyDb
    /\ cmdlines_db' = EmptyDb
    /\ answer' = None
    /\ UNCHANGED <<disk, now, dbfile, outsideLedger>>

\* The clock advances by half a second.
tick ==
    /\ now < MaxTime
    /\ now' = now + 1
    /\ answer' = None
    /\ UNCHANGED <<deps_db, modtimes_db, cmdlines_db, disk, dbfile, outsideLedger>>

\* A file is written (created, rewritten or touched) now.
touch(files) ==
    /\ \E f \in files :
        /\ disk[f].kind # "dir"
        /\ disk' = [disk EXCEPT ![f] = RegularFile(now)]
    /\ answer' = None
    /\ UNCHANGED <<deps_db, modtimes_db, cmdlines_db, now, dbfile, outsideLedger>>

\* A file is removed.
remove(files) ==
    /\ \E f \in files :
        /\ disk[f].kind = "file"
        /\ disk' = [disk EXCEPT ![f] = NoFile]
    /\ answer' = None
    /\ UNCHANGED <<deps_db, modtimes_db, cmdlines_db, now, dbfile, outsideLedger>>

----------------------------------------------------------------------------
(* The callers of bkl/expr.py. *)

\* What the functions of bkl/expr.py leave alone.
outsideExpr == <<builderVars, ledgerVars, ioVars>>

\* simplify is called on the expression, then on what it returned.
call_simplify ==
    /\ Len(calls) < MaxCalls
    /\ calls # <<>> => ~calls[Len(calls)].err.raised
    /\ LET arg == IF calls = <<>> THEN expr ELSE calls[Len(calls)].value
           r == simplify(scopes, arg)
       IN  calls' = Append(calls, [op |-> "simplify", arg |-> arg,
                                   err |-> r.err, value |-> r.value])
    /\ UNCHANGED <<expr, outsideExpr>>

----------------------------------------------------------------------------
(* Inputs. *)

CondNames == {"c1", "c2"}
IfNodes == {IfNode(VarReferenceNode(c)) : c \in CondNames}

ValueNodes == {LiteralNode("1"), ListNode(<<LiteralNode("2"), LiteralNode("3")>>),
               VarReferenceNode("a")}
AssignNodes ==
    {AssignmentNode(n, v) : n \in VarNames, v \in ValueNodes} \cup
    {AppendNode(n, v) : n \in VarNames, v \in ValueNodes}

TargetNodes == {TargetNode("exe", "t1"), TargetNode("exe", "t2"), TargetNode("dll", "t3")}

ConfigNames == {"Debug", "Fast", "Faster"}
BaseNames == {"", "Debug", "Fast", "Nope"}
Contents == {<<AssignmentNode("a", LiteralNode("1"))>>,
             <<AppendNode("a", LiteralNode("4"))>>}
ConfigNodes == {ConfigurationNode(n, b, c) : n \in ConfigNames, b \in BaseNames, c \in Contents}

\* Assignments, if blocks and targets of one module.
NextAssign ==
    \/ create_model(1)
    \/ end_model
    \/ assignment(AssignNodes, MaxAssignNodes)
    \/ if_block(IfNodes, MaxAssignNodes)
    \/ end_if
    \/ target({TargetNode("exe", "t1")}, MaxAssignNodes)
    \/ end_target

SpecAssign == Init /\ [][NextAssign]_vars

\* Targets, in if blocks, of the modules of a project.
NextTarget ==
    \/ create_model(MaxModules)
    \/ end_model
    \/ target(TargetNodes, MaxTargetNodes)
    \/ end_target
    \/ if_block(IfNodes, MaxTargetNodes)
    \/ end_if
    \/ assignment({AssignmentNode("a", LiteralNode("1"))}, MaxTargetNodes)

SpecTarget == Init /\ [][NextTarget]_vars

\* Configurations, in if blocks, of one module.
NextConfig ==
    \/ create_model(1)
    \/ end_model
    \/ configuration(ConfigNodes, MaxConfigNodes)
    \/ configuration_child
    \/ end_configuration
    \/ if_block(IfNodes, MaxConfigNodes)
    \/ end_if

SpecConfig == Init /\ [][NextConfig]_vars

SubmoduleFiles == {<<"m.bkl">>, <<"..", "m.bkl">>, <<"lib", ".", "m.bkl">>,
                   <<"/", "abs", "m.bkl">>}
SourceFilenames == {<<"top.bkl">>, <<"sub", "mod.bkl">>}
SubmoduleNodes == {SubmoduleNode(f, n) : f \in SubmoduleFiles, n \in SourceFilenames}

SubmoduleConfigNodes ==
    {ConfigurationNode("Debug", "", <<SubmoduleNode(<<"m.bkl">>, <<"top.bkl">>)>>),
     ConfigurationNode("Fast", "Debug", <<AssignmentNode("a", LiteralNode("1"))>>)}

\* Submodule statements, in if blocks, configurations and targets of one module.
NextSubmodule ==
    \/ create_model(1)
    \/ end_model
    \/ submodule(SubmoduleNodes, MaxSubmoduleNodes)
    \/ if_block(IfNodes, MaxSubmoduleNodes)
    \/ end_if
    \/ configuration(SubmoduleConfigNodes, MaxSubmoduleNodes)
    \/ configuration_child
    \/ configuration_submodule
    \/ end_configuration
    \/ target({TargetNode("exe", "t1")}, MaxSubmoduleNodes)
    \/ end_target

SpecSubmodule == Init /\ [][NextSubmodule]_vars

FileLists == {<<LiteralNode("a.c"), LiteralNode("b.c")>>,
              <<LiteralNode("b.c"), LiteralNode("a.c"), LiteralNode("b.c")>>,
              <<LiteralNode("w.c")>>,
              <<LiteralNode("a.c"), VarReferenceNode("a")>>}
FilesListNodes == {FilesListNode(k, ListNode(f)) : k \in {"sources", "headers"}, f \in FileLists}

\* Sources and headers, in if blocks and targets of one module.
NextSources ==
    \/ create_model(1)
    \/ end_model
    \/ files_list(FilesListNodes, MaxSourcesNodes)
    \/ if_block(IfNodes, MaxSourcesNodes)
    \/ end_if
    \/ target({TargetNode("exe", "t1")}, MaxSourcesNodes)
    \/ end_target
    \/ assignment({AssignmentNode("a", LiteralNode("b.c"))}, MaxSourcesNodes)

SpecSources == Init /\ [][NextSources]_vars

Bakefiles == {"x.bkl"}
Formats == {"gnu", "msvc"}
DependencyFiles == {"inc.bkl", "x.bkl"}
OutputFiles == {"out.mk", "out2.mk"}
Methods == {"replace"}
CmdLines == {<<"--foo">>, <<"--bar">>}
Files == Bakefiles \cup DependencyFiles \cup OutputFiles

\* What may be at a path: nothing, a file of any age or, for a dependency, a
\* directory.
DiskStates(f) ==
    {NoFile} \cup {RegularFile(t) : t \in 0..MaxTime} \cup
    (IF f = "inc.bkl" THEN {Directory(0)} ELSE {})

\* A database saved by an earlier run.
EarlierDb ==
    [version |-> DEPS_FORMAT_VERSION,
     deps |-> (<<"x.bkl", "gnu">> :> [deps |-> <<>>, outputs |-> <<<<"out.mk", "replace">>>>]),
     modtimes |-> ("out.mk" :> 2),
     cmdlines |-> (<<"x.bkl", "gnu">> :> <<"--foo">>)]

\* The file system is in any state when the program starts.
InitStale ==
    /\ BuilderInit
    /\ ExprInit
    /\ IoInit
    /\ deps_db = EmptyDb
    /\ modtimes_db = EmptyDb
    /\ cmdlines_db = EmptyDb
    /\ disk \in {d \in [Files -> UNION {DiskStates(f) : f \in Files}] :
                    \A f \in Files : d[f] \in DiskStates(f)}
    /\ now = 0
    /\ dbfile = EarlierDb
    /\ answer = None

\* The staleness decision for one (bakefile, format), on any file system.
NextStale ==
    \/ add_dependency(Bakefiles, {"gnu"}, DependencyFiles)
    \/ add_output(Bakefiles, {"gnu"}, OutputFiles, Methods)
    \/ add_cmdline(Bakefiles, {"gnu"}, CmdLines)
    \/ load_db
    \/ needs_update(Bakefiles, {"gnu"}, CmdLines)
    \/ tick

SpecStale == InitStale /\ [][NextStale]_vars

\* The sequences over S of the lengths lo..hi
SeqsOf(S, lo, hi) == UNION {[1..n -> S] : n \in lo..hi}

\* The values of the variables a and p of the module the expressions refer to.
ValuesOfA == {NoVar,
              Variable(LiteralExpr("c"), AnyType),
              Variable(ReferenceExpr("p", 1), AnyType),
              Variable(ListExpr(<<LiteralExpr("2"), LiteralExpr("3")>>), ListType)}
ValuesOfP == {Variable(LiteralExpr("d"), AnyType),
              Variable(ReferenceExpr("a", 1), AnyType),
              Variable(ListExpr(<<ReferenceExpr("a", 1)>>), ListType),
              Variable(ConcatExpr(<<LiteralExpr("d"), LiteralExpr("e")>>), AnyType)}

Atoms == {LiteralExpr("a"), LiteralExpr("b"), NullExpr,
          ReferenceExpr("a", 1), ReferenceExpr("p", 1)}
Children == Atoms \cup {ConcatExpr(<<LiteralExpr("a"), LiteralExpr("b")>>)}
Exprs ==
    Atoms \cup
    {ConcatExpr(items) : items \in SeqsOf(Children, 1, MaxItems)} \cup
    {ListExpr(items) : items \in SeqsOf(Children, 0, 2)} \cup
    {PathExpr(items, ANCHOR_SRCDIR) : items \in SeqsOf(Atoms, 1, 2)}

\* An expression of a module whose variables have any of the values.
InitExpr ==
    /\ LedgerInit
    /\ \E a \in ValuesOfA, p \in ValuesOfP :
          scopes = <<[Module(1) EXCEPT !.vars = [n \in VarNames |-> IF n = "a" THEN a ELSE p]]>>
    /\ configurations = <<Configuration("Debug", "", <<>>, 0),
                          Configuration("Release", "", <<>>, 0)>>
    /\ context = 0
    /\ conds = <<>>
    /\ stack = <<>>
    /\ trace = <<>>
    /\ err = NoError
    /\ submodules = <<>>
    /\ expr \in Exprs
    /\ calls = <<>>
    /\ IoInit

NextExpr ==
    \/ call_simplify

SpecExpr == InitExpr /\ [][NextExpr]_vars

OtherVersions == {3}

InitLoad ==
    /\ BuilderInit
    /\ ExprInit
    /\ IoInit
    /\ deps_db = EmptyDb
    /\ modtimes_db = EmptyDb
    /\ cmdlines_db = EmptyDb
    /\ disk = [f \in Files |-> NoFile]
    /\ now = 0
    /\ dbfile = None
    /\ answer = None

\* Runs of the program that record, save and load the database.
NextLoad ==
    \/ add_dependency(Bakefiles, Formats, {"inc.bkl"})
    \/ add_output(Bakefiles, {"gnu"}, {"out.mk"}, Methods)
    \/ add_cmdline(Bakefiles, Formats, {<<"--foo">>})
    \/ save_db
    \/ save_other_version(OtherVersions)
    \/ load_db
    \/ restart
    \/ tick

SpecLoad == InitLoad /\ [][NextLoad]_vars

----------------------------------------------------------------------------
(* What the claims below speak of. *)

\* The step handles one node: ThisEvent is its record.
HandlesNode == Len(trace') = Len(trace) + 1
ThisEvent == trace'[Len(trace')]

\* The value an assignment to n in scope s finds: the local variable's, else
\* the nearest enclosing scope's, else the property's default, else Null.
PreviousExpr(sc, s, n) ==
    IF sc[s].vars[n] # NoVar THEN sc[s].vars[n].value
    ELSE IF resolve_variable(sc, sc[s].parent, n) # NoVar
         THEN resolve_variable(sc, sc[s].parent, n).value
         ELSE IF get_prop(sc[s].kind, n) # NoProp
              THEN get_prop(sc[s].kind, n).default
              ELSE NullExpr

\* The type of the variable an append to n in scope s acts on: the local
\* variable's, else the property's, else the inherited variable's.
AppendedType(sc, s, n) ==
    IF sc[s].vars[n] # NoVar THEN sc[s].vars[n].type
    ELSE IF get_prop(sc[s].kind, n) # NoProp THEN get_prop(sc[s].kind, n).type
         ELSE resolve_variable(sc, sc[s].parent, n).type

\* No variable, inherited variable or property of that name.
Unknown(sc, s, n) ==
    /\ sc[s].vars[n] = NoVar
    /\ resolve_variable(sc, sc[s].parent, n) = NoVar
    /\ get_prop(sc[s].kind, n) = NoProp

ItemsOf(e) == IF e.t = "list" THEN e.items ELSE <<e>>

TruthAssignments == [CondNames -> BOOLEAN]

RECURSIVE CondHolds(_, _)
CondHolds(cond, ta) ==
    CASE cond.t = "None" -> TRUE
      [] cond.t = "ref" -> cond.var \in CondNames /\ ta[cond.var]
      [] cond.t = "bool" /\ cond.op = "AND" ->
            CondHolds(cond.left, ta) /\ CondHolds(cond.right, ta)
      [] OTHER -> FALSE

\* The expression with each If replaced by its branch under the truth
\* assignment and the Null items of lists dropped.
RECURSIVE Resolved(_, _)
Resolved(e, ta) ==
    CASE e.t = "if" ->
            IF CondHolds(e.cond, ta) THEN Resolved(e.yes, ta) ELSE Resolved(e.no, ta)
      [] e.t = "list" ->
            ListExpr(SelectSeq([i \in 1..Len(e.items) |-> Resolved(e.items[i], ta)],
                               LAMBDA x : x # NullExpr))
      [] OTHER -> e

\* The scopes after executing, in order and unconditionally, the assignments
\* of the trace whose condition is true, and the error that stopped it.
RECURSIVE Eager(_, _, _, _)
Eager(sc, tr, i, ta) ==
    IF i > Len(tr) THEN [err |-> NoError, scopes |-> sc]
    ELSE IF tr[i].node.t \in {"AssignmentNode", "AppendNode"} /\ CondHolds(tr[i].cond, ta)
         THEN LET r == on_assignment(sc, tr[i].context, None, tr[i].node)
              IN  IF r.err.raised THEN r ELSE Eager(r.scopes, tr, i + 1, ta)
         ELSE Eager(sc, tr, i + 1, ta)

NoVariables == [i \in 1..Len(scopes) |-> [scopes[i] EXCEPT !.vars = [n \in VarNames |-> NoVar]]]

----------------------------------------------------------------------------
(* Claims. *)

\* C1: for every truth assignment to the conditions, resolving the final
\* value of every variable (as seen from its scope) gives the value that
\* executing only the statements whose condition is true gives, and that
\* execution raises no error where the build raised none.
C1_LazyEqualsEager ==
    ~err.raised =>
        \A ta \in TruthAssignments :
            LET eager == Eager(NoVariables, trace, 1, ta)
            IN  /\ ~eager.err.raised
                /\ \A s \in 1..Len(scopes) : \A n \in VarNames :
                      Resolved(PreviousExpr(scopes, s, n), ta)
                          = Resolved(PreviousExpr(eager.scopes, s, n), ta)

\* C2: a conditional append of a list under condition c leaves the previous
\* items as they were, followed by one If(c, item, Null) per appended item,
\* in order.
C2_ConditionalAppendList ==
    [][(/\ HandlesNode
        /\ ThisEvent.node.t = "AppendNode"
        /\ ThisEvent.node.value.t = "ListNode"
        /\ ThisEvent.cond # None
        /\ ~err'.raised)
       => LET s == ThisEvent.context
              n == ThisEvent.node.var
              c == ThisEvent.cond
              items == build_expression(ThisEvent.node.value, s).items
              before == ItemsOf(PreviousExpr(scopes, s, n))
              after == scopes'[s].vars[n].value
          IN  /\ after.t = "list"
              /\ Len(after.items) = Len(before) + Len(items)
              /\ \A i \in 1..Len(before) : after.items[i] = before[i]
              /\ \A i \in 1..Len(items) :
                    after.items[Len(before) + i] = IfExpr(c, items[i], NullExpr)]_vars

\* C2 witness: a = [2, 3]; if (c1) a += [2, 3].
C2_Witness ==
    \E s \in 1..Len(scopes) :
        scopes[s].vars["a"].value =
            ListExpr(<<LiteralExpr("2"), LiteralExpr("3"),
                       IfExpr(ReferenceExpr("c1", s), LiteralExpr("2"), NullExpr),
                       IfExpr(ReferenceExpr("c1", s), LiteralExpr("3"), NullExpr)>>)

\* C3: a conditional set under condition c makes the value If(c, new value,
\* previous value), the previous value being the local variable's, else the
\* nearest enclosing scope's, else the property's default, else Null; a
\* conditional append of a non-list value appends the one item
\* If(c, value, Null).
C3_ConditionalSet ==
    [][(/\ HandlesNode
        /\ ThisEvent.node.t \in {"AssignmentNode", "AppendNode"}
        /\ ThisEvent.cond # None
        /\ ~err'.raised)
       => LET s == ThisEvent.context
              n == ThisEvent.node.var
              c == ThisEvent.cond
              value == build_expression(ThisEvent.node.value, s)
              before == PreviousExpr(scopes, s, n)
              after == scopes'[s].vars[n].value
          IN  /\ ThisEvent.node.t = "AssignmentNode" => after = IfExpr(c, value, before)
              /\ (ThisEvent.node.t = "AppendNode" /\ value.t # "list") =>
                    after = ListExpr(ItemsOf(before) \o <<IfExpr(c, value, NullExpr)>>)]_vars

\* C3 witness: a = "1"; target t1 { if (c1) a = [2, 3] }: the previous value
\* is the module's.
C3_Witness ==
    \E s \in 1..Len(scopes) :
        /\ scopes[s].kind = "target"
        /\ scopes[scopes[s].parent].vars["a"].value = LiteralExpr("1")
        /\ scopes[s].vars["a"].value =
              IfExpr(ReferenceExpr("c1", s),
                     ListExpr(<<LiteralExpr("2"), LiteralExpr("3")>>), LiteralExpr("1"))

\* C4: an append to a name with no variable in the scope or an enclosing one
\* and no property raises ParserError "unknown variable" and leaves the
\* scope without a variable of that name.
C4_AppendToUnknown ==
    [][(/\ HandlesNode
        /\ ThisEvent.node.t = "AppendNode"
        /\ Unknown(scopes, ThisEvent.context, ThisEvent.node.var))
       => /\ err'.raised
          /\ err'.kind = "ParserError"
          /\ err'.msg = "unknown variable"
          /\ scopes'[ThisEvent.context].vars[ThisEvent.node.var] = NoVar]_vars

\* C4 witness: x += v at module level, x unknown.
C4_Witness ==
    /\ err.msg = "unknown variable"
    /\ trace[Len(trace)].node.t = "AppendNode"
    /\ scopes[trace[Len(trace)].context].kind = "module"

\* C5, as stated: an append to a variable of type AnyType makes it
\* list-typed with the value [previous value, new value].
C5_Original ==
    [][(/\ HandlesNode
        /\ ThisEvent.node.t = "AppendNode"
        /\ ThisEvent.cond = None
        /\ scopes[ThisEvent.context].vars[ThisEvent.node.var].type = AnyType)
       => LET s == ThisEvent.context
              n == ThisEvent.node.var
          IN  /\ ~err'.raised
              /\ scopes'[s].vars[n].type = ListType
              /\ scopes'[s].vars[n].value =
                    ListExpr(<<scopes[s].vars[n].value,
                               build_expression(ThisEvent.node.value, s)>>)]_vars

\* C5, amended: an append to a variable of type AnyType makes it list-typed
\* with the items of the previous value (the value itself if it is no list)
\* followed by the items of the new value (the value itself if it is no
\* list; under a condition c each as If(c, item, Null)); an append to a
\* variable of another type than ListType and AnyType raises ParserError;
\* no step changes the type of a list-typed variable.
C5_AppendPromotes ==
    [][/\ (HandlesNode /\ ThisEvent.node.t = "AppendNode"
              /\ ~Unknown(scopes, ThisEvent.context, ThisEvent.node.var))
          => LET s == ThisEvent.context
                 n == ThisEvent.node.var
                 c == ThisEvent.cond
                 type == AppendedType(scopes, s, n)
                 items == ItemsOf(build_expression(ThisEvent.node.value, s))
                 new == [i \in 1..Len(items) |->
                            IF c = None THEN items[i] ELSE IfExpr(c, items[i], NullExpr)]
             IN  IF type \in {AnyType, ListType}
                 THEN /\ ~err'.raised
                      /\ scopes'[s].vars[n].type = ListType
                      /\ scopes'[s].vars[n].value =
                            ListExpr(ItemsOf(PreviousExpr(scopes, s, n)) \o new)
                 ELSE /\ err'.raised
                      /\ err'.kind = "ParserError"
                      /\ err'.msg = "cannot append to non-list variable"
       /\ \A s \in 1..Len(scopes) : \A n \in VarNames :
             scopes[s].vars[n].type = ListType => scopes'[s].vars[n].type = ListType]_vars

\* C5 witness: x = "1"; x += "1" gives the list-typed ["1", "1"].
C5_Witness ==
    \E s \in 1..Len(scopes) :
        /\ scopes[s].vars["a"] = Variable(ListExpr(<<LiteralExpr("1"), LiteralExpr("1")>>), ListType)
        /\ Len(trace) = 2
        /\ trace[1].node = AssignmentNode("a", LiteralNode("1"))
        /\ trace[2].node = AppendNode("a", LiteralNode("1"))

\* C6: an error raised by an assignment before its update step (the only
\* one is "unknown variable") leaves the variables of every scope, their
\* values and their types as they were.
C6_ErrorLeavesScope ==
    [][(/\ HandlesNode
        /\ ThisEvent.node.t \in {"AssignmentNode", "AppendNode"}
        /\ err'.raised
        /\ err'.msg = "unknown variable")
       => scopes' = scopes]_vars

\* C6 witness: the error is raised in a scope that holds a variable.
C6_Witness ==
    /\ err.msg = "unknown variable"
    /\ \E n \in VarNames : scopes[trace[Len(trace)].context].vars[n] # NoVar

\* C7: no two targets of the project have the same id; declaring a target
\* whose id exists in any module raises ParserError citing the position of
\* the node that declared the existing target, and leaves the targets as
\* they were.
C7_UniqueTargets ==
    [][/\ \A i, j \in 1..Len(scopes') :
             (/\ scopes'[i].kind = "target"
              /\ scopes'[j].kind = "target"
              /\ scopes'[i].name = scopes'[j].name) => i = j
       /\ (/\ HandlesNode
           /\ ThisEvent.node.t = "TargetNode"
           /\ \E i \in 1..Len(scopes) :
                 scopes[i].kind = "target" /\ scopes[i].name = ThisEvent.node.name)
          => /\ err'.raised
             /\ err'.kind = "ParserError"
             /\ err'.see \in 1..Len(trace)
             /\ trace[err'.see].node.t = "TargetNode"
             /\ trace[err'.see].node.name = ThisEvent.node.name
             /\ scopes' = scopes]_vars

\* C7 witness: the id declared in the second module exists in the first.
C7_Witness ==
    /\ err.msg = "target already exists"
    /\ Cardinality(Modules) = 2
    /\ scopes[get_target(scopes, trace[Len(trace)].node.name).parent].pos
          < scopes[trace[Len(trace)].context].pos

\* C8: a target declared under the active condition c has the _condition c;
\* the statements of its body are handled with an empty stack of conditions,
\* their values not wrapped; after the body the active condition is c again.
C8_TargetCondition ==
    [][/\ (HandlesNode /\ ThisEvent.node.t = "TargetNode" /\ ~err'.raised)
          => /\ scopes'[Len(scopes')].name = ThisEvent.node.name
             /\ scopes'[Len(scopes')].cond = active_if_cond(conds)
             /\ conds' = <<>>
       /\ (/\ HandlesNode
           /\ top.kind = "target"
           /\ ThisEvent.node.t = "AssignmentNode"
           /\ ~err'.raised)
          => /\ ThisEvent.cond = None
             /\ scopes'[top.scope].vars[ThisEvent.node.var].value
                   = build_expression(ThisEvent.node.value, top.scope)
       /\ (/\ stack # <<>>
           /\ top.kind = "target"
           /\ stack' = SubSeq(stack, 1, Len(stack) - 1))
          => /\ active_if_cond(conds') = scopes[top.scope].cond
             /\ context' = scopes[top.scope].parent]_vars

\* C8 witness: if (c1) { target t { a = "1" } a = "1" }: the assignment in
\* the target is unconditional, the one after it is under c1.
C8_Witness ==
    \E i, j \in 1..Len(trace) :
        /\ i < j
        /\ trace[i].node.t = "AssignmentNode"
        /\ trace[j].node.t = "AssignmentNode"
        /\ scopes[trace[i].context].kind = "target"
        /\ scopes[trace[i].context].cond # None
        /\ trace[i].cond = None
        /\ trace[j].context = scopes[trace[i].context].parent
        /\ trace[j].cond = scopes[trace[i].context].cond
        /\ scopes[trace[i].context].vars["a"].value = LiteralExpr("1")

ConfigurationNames(cfgs) == [i \in 1..Len(cfgs) |-> cfgs[i].name]

\* The configuration statement is one that must raise an error.
BadConfiguration(cfgs, node) ==
    IF node.name \in Predefined
    THEN node.base # ""
    ELSE \/ node.base = ""
         \/ \A i \in 1..Len(cfgs) : cfgs[i].name # node.base
         \/ \E i \in 1..Len(cfgs) : cfgs[i].name = node.name

\* C9, as stated: every configuration statement in error raises ParserError
\* and leaves the configurations unchanged, and every successful one adds
\* exactly one configuration at the end.
C9_Original ==
    [][(HandlesNode /\ ThisEvent.node.t = "ConfigurationNode")
       => IF BadConfiguration(configurations, ThisEvent.node)
          THEN /\ err'.raised
               /\ err'.kind = "ParserError"
               /\ configurations' = configurations
          ELSE /\ ~err'.raised
               /\ Len(configurations') = Len(configurations) + 1
               /\ SubSeq(configurations', 1, Len(configurations)) = configurations
               /\ configurations'[Len(configurations')].name = ThisEvent.node.name]_vars

\* C9, amended: as stated, but only a successful statement with a name other
\* than Debug and Release adds a configuration (exactly one, at the end); a
\* successful Debug or Release statement adds none and changes only the
\* definition of that configuration.
C9_ConfigurationErrors ==
    [][(HandlesNode /\ ThisEvent.node.t = "ConfigurationNode")
       => IF BadConfiguration(configurations, ThisEvent.node)
          THEN /\ err'.raised
               /\ err'.kind = "ParserError"
               /\ configurations' = configurations
          ELSE /\ ~err'.raised
               /\ IF ThisEvent.node.name \in Predefined
                  THEN /\ Len(configurations') = Len(configurations)
                       /\ \A i \in 1..Len(configurations) :
                             configurations'[i] =
                                IF configurations[i].name = ThisEvent.node.name
                                THEN [configurations[i] EXCEPT !.definition = ThisEvent.node.content]
                                ELSE configurations[i]
                  ELSE /\ Len(configurations') = Len(configurations) + 1
                       /\ SubSeq(configurations', 1, Len(configurations)) = configurations
                       /\ configurations'[Len(configurations')].name = ThisEvent.node.name]_vars

\* C9 witness: Debug got a definition, a configuration was added after the
\* predefined ones and a later statement raised an error.
C9_Witness ==
    /\ err.raised
    /\ trace[Len(trace)].node.t = "ConfigurationNode"
    /\ ConfigurationNames(configurations) = <<"Debug", "Release", "Fast">>
    /\ get_configuration(configurations, "Debug").definition # <<>>

\* The condition is config == name, or its conjunction with the condition
\* of the enclosing blocks.
IsConfigCond(c, name, ctx) ==
    LET pushed == BoolExpr("EQUAL", ReferenceExpr("config", ctx), LiteralExpr(name))
    IN  \/ c = pushed
        \/ c.t = "bool" /\ c.op = "AND" /\ c.right = pushed

\* C10: a configuration N with base B gets B's definition followed by its
\* own block as definition; the condition config == N is pushed (in
\* conjunction with the condition of the enclosing if blocks, if any) and
\* each statement of that definition is handled, in order, under it, its
\* value wrapped in it.
C10_ConfigurationInheritance ==
    [][/\ (/\ HandlesNode
           /\ ThisEvent.node.t = "ConfigurationNode"
           /\ ThisEvent.node.base # ""
           /\ ~err'.raised)
          => LET node == ThisEvent.node
                 definition == get_configuration(configurations, node.base).definition
                                  \o node.content
                 pushed == BoolExpr("EQUAL", ReferenceExpr("config", context),
                                    LiteralExpr(node.name))
             IN  /\ get_configuration(configurations', node.name).definition = definition
                 /\ stack'[Len(stack')].kind = "config"
                 /\ stack'[Len(stack')].todo = definition
                 /\ Len(conds') = Len(conds) + 1
                 /\ SubSeq(conds', 1, Len(conds)) = conds
                 /\ active_if_cond(conds') =
                       IF conds = <<>> THEN pushed
                       ELSE BoolExpr("AND", conds[Len(conds)], pushed)
       /\ (HandlesNode /\ ThisEvent.nested)
          => LET c == ThisEvent.cond
                 value == build_expression(ThisEvent.node.value, context)
                 after == scopes'[context].vars[ThisEvent.node.var].value
             IN  /\ top.kind = "config"
                 /\ ThisEvent.node = Head(top.todo)
                 /\ IsConfigCond(c, top.node.name, context)
                 /\ ~err'.raised =>
                       /\ stack'[Len(stack')].todo = Tail(top.todo)
                       /\ IF ThisEvent.node.append
                          THEN after.items[Len(after.items)] = IfExpr(c, value, NullExpr)
                          ELSE after.t = "if" /\ after.cond = c /\ after.yes = value
       /\ (/\ stack # <<>>
           /\ top.kind = "config"
           /\ stack' = SubSeq(stack, 1, Len(stack) - 1))
          => top.todo = <<>>]_vars

\* C10 witness: Faster derives from Fast, which derives from Debug; the three
\* statements of its definition have been handled.
C10_Witness ==
    /\ stack # <<>>
    /\ top.kind = "config"
    /\ top.node.name = "Faster"
    /\ top.node.base = "Fast"
    /\ top.todo = <<>>
    /\ get_configuration(configurations, "Fast").base = "Debug"
    /\ Len(get_configuration(configurations, "Faster").definition) = 3
    /\ \A k \in 1..3 :
          /\ trace[Len(trace) - 3 + k].nested
          /\ trace[Len(trace) - 3 + k].node
                = get_configuration(configurations, "Faster").definition[k]
          /\ trace[Len(trace) - 3 + k].cond.right = LiteralExpr("Faster")

----------------------------------------------------------------------------
(* Submodules. *)

\* The file a submodule statement names, relative to the current directory
\* /proj, worked out by hand for the statements of SubmoduleNodes.
ExpectedSubmodule(node) ==
    LET dir == IF node.filename = <<"top.bkl">> THEN <<>> ELSE <<"sub">>
    IN  CASE node.file = <<"m.bkl">> -> dir \o <<"m.bkl">>
          [] node.file = <<"..", "m.bkl">> ->
                IF dir = <<>> THEN <<"..", "m.bkl">> ELSE <<"m.bkl">>
          [] node.file = <<"lib", ".", "m.bkl">> -> dir \o <<"lib", "m.bkl">>
          [] node.file = <<"/", "abs", "m.bkl">> -> <<"..", "abs", "m.bkl">>

\* C11: a submodule statement handled under a non-empty active condition
\* raises ParserError and the callback is not called; handled under no
\* condition it calls the callback once, with the file's relative name, and
\* raises nothing.
C11_SubmoduleCondition ==
    [][(HandlesNode /\ ThisEvent.node.t = "SubmoduleNode")
          => IF conds # <<>>
             THEN /\ err'.raised
                  /\ err'.kind = "ParserError"
                  /\ submodules' = submodules
             ELSE /\ ~err'.raised
                  /\ submodules' = Append(submodules, ExpectedSubmodule(ThisEvent.node))]_vars

\* C11 witness: a submodule statement of a configuration's definition was
\* rejected after one outside every block was loaded.
C11_Witness ==
    /\ err.raised
    /\ trace # <<>>
    /\ trace[Len(trace)].node.t = "SubmoduleNode"
    /\ trace[Len(trace)].nested
    /\ Len(submodules) = 1

----------------------------------------------------------------------------
(* Source files. *)

\* An item of a file list as the statement finds it in scope s: the value
\* of the variable for a reference to one that has a value.
ItemValue(sc, s, item) ==
    IF item.t = "VarReferenceNode" /\ resolve_variable(sc, s, item.var) # NoVar
    THEN resolve_variable(sc, s, item.var).value
    ELSE build_expression(item, s)

\* The possible elements of a file list of literals: its items, each once,
\* in the order of their first occurrence.
PossibleElements(sc, s, items) ==
    LET vals == [i \in 1..Len(items) |-> ItemValue(sc, s, items[i])]
        firsts == {i \in 1..Len(vals) : \A j \in 1..(i - 1) : vals[j] # vals[i]}
        RECURSIVE pick(_)
        pick(i) == IF i > Len(vals) THEN <<>>
                   ELSE IF i \in firsts THEN <<vals[i]>> \o pick(i + 1)
                   ELSE pick(i + 1)
    IN  pick(1)

FileListOf(scope, kind) == IF kind = "sources" THEN scope.sources ELSE scope.headers

\* C12: a sources (headers) statement that succeeds leaves the sources
\* (headers) of the current scope as the entries it had followed by one
\* SourceFile per possible element of the file list, in the list's order,
\* each with the active condition as its _condition (none outside every if
\* block); the other list and the other scopes are as they were.  A
\* statement that fails leaves every entry there was in its place.
C12_SourcesAppended ==
    [][(HandlesNode /\ ThisEvent.node.t = "FilesListNode")
          => LET node == ThisEvent.node
                 other == IF node.kind = "sources" THEN "headers" ELSE "sources"
                 before == FileListOf(scopes[context], node.kind)
                 after == FileListOf(scopes'[context], node.kind)
                 elements == PossibleElements(scopes, context, node.files.values)
             IN  /\ Len(after) >= Len(before)
                 /\ SubSeq(after, 1, Len(before)) = before
                 /\ FileListOf(scopes'[context], other) = FileListOf(scopes[context], other)
                 /\ \A i \in 1..Len(scopes) :
                       i # context => scopes'[i] = scopes[i]
                 /\ ~err'.raised
                    => /\ Len(after) = Len(before) + Len(elements)
                       /\ \A k \in 1..Len(elements) :
                             /\ after[Len(before) + k].filename = elements[k]
                             /\ after[Len(before) + k].cond
                                   = (IF conds = <<>> THEN None ELSE conds[Len(conds)])
                             /\ (stack # <<>> /\ top.kind = "if")
                                   => after[Len(before) + k].cond # None]_vars

\* C12 witness: sources { a.c b.c } if (c1) { sources { b.c a.c b.c } }
\* leaves four sources, the last two under the condition c1.
C12_Witness ==
    /\ ~err.raised
    /\ \E s \in 1..Len(scopes) :
          /\ Len(scopes[s].sources) = 4
          /\ scopes[s].sources[1].cond = None
          /\ scopes[s].sources[2].cond = None
          /\ scopes[s].sources[3].filename = LiteralExpr("b.c")
          /\ scopes[s].sources[3].cond = ReferenceExpr("c1", s)
          /\ scopes[s].sources[4].filename = LiteralExpr("a.c")
          /\ scopes[s].sources[4].cond = ReferenceExpr("c1", s)

----------------------------------------------------------------------------
(* The staleness decision. *)

\* needsUpdate was just called: answer holds its arguments and its outcome.
Asked == answer # None /\ answer.op = "needsUpdate"
AskedKey == <<answer.bakefile, answer.format>>

DeclaredOutputs(k) == {deps_db[k].outputs[i][1] : i \in 1..Len(deps_db[k].outputs)}
DeclaredDeps(k) == {deps_db[k].deps[i] : i \in 1..Len(deps_db[k].deps)}

Missing(f) == disk[f].kind = "none"

\* max(recorded modtime, on-disk mtime)
EffectiveTime(f) ==
    IF f \in DOMAIN modtimes_db /\ modtimes_db[f] > disk[f].mtime
    THEN modtimes_db[f] ELSE disk[f].mtime

\* The six conditions of staleness, for the key and command line asked about.
UnknownKey == AskedKey \notin DOMAIN deps_db \/ AskedKey \notin DOMAIN cmdlines_db
CmdLineDiffers == ~UnknownKey /\ cmdlines_db[AskedKey] # answer.cmdline
OutputMissing == ~UnknownKey /\ \E o \in DeclaredOutputs(AskedKey) : Missing(o)
DepMissing == ~UnknownKey /\ \E d \in DeclaredDeps(AskedKey) : Missing(d)
OlderThanInput ==
    /\ ~UnknownKey
    /\ ~Missing(answer.bakefile)
    /\ \E o \in DeclaredOutputs(AskedKey) : EffectiveTime(o) < disk[answer.bakefile].mtime
OlderThanDep ==
    /\ ~UnknownKey
    /\ \E o \in DeclaredOutputs(AskedKey), d \in DeclaredDeps(AskedKey) :
          ~Missing(d) /\ EffectiveTime(o) < disk[d].mtime

\* C13: when none of the six conditions of staleness applies to the key
\* asked about, needsUpdate returns false.
C13_NotStale ==
    (/\ Asked
     /\ ~UnknownKey
     /\ ~CmdLineDiffers
     /\ ~OutputMissing
     /\ ~DepMissing
     /\ ~OlderThanInput
     /\ ~OlderThanDep)
    => (~answer.err.raised /\ answer.value = 0)

\* C14: needsUpdate returns true when the key has no entry in deps_db or
\* none in cmdlines_db, or the recorded command line differs from the one
\* supplied, whatever is on disk.
C14_UnknownOrChanged ==
    (Asked /\ (UnknownKey \/ CmdLineDiffers))
    => (~answer.err.raised /\ answer.value = 1)

\* C14 witness: the command line differs, and the bakefile and a declared
\* output are not on disk.
C14_Witness ==
    /\ Asked
    /\ CmdLineDiffers
    /\ Missing(answer.bakefile)
    /\ OutputMissing
    /\ answer.value = 1

\* C15: for a known key with the same command line, needsUpdate returns
\* true when a declared output or a declared dependency is not on disk,
\* whatever the times.
C15_MissingFiles ==
    (Asked /\ ~UnknownKey /\ ~CmdLineDiffers /\ (OutputMissing \/ DepMissing))
    => (~answer.err.raised /\ answer.value = 1)

\* C16: for a known key with the same command line whose outputs and
\* dependencies are all on disk, needsUpdate returns true exactly when the
\* oldest effective time of the outputs is older than the input file's time
\* or than a dependency's.
C16_EffectiveTime ==
    (Asked /\ ~UnknownKey /\ ~CmdLineDiffers /\ ~OutputMissing /\ ~DepMissing)
    => /\ ~answer.err.raised
       /\ answer.value = 1 <=>
             \E o \in DeclaredOutputs(AskedKey) :
                \/ EffectiveTime(o) < disk[answer.bakefile].mtime
                \/ \E d \in DeclaredDeps(AskedKey) : EffectiveTime(o) < disk[d].mtime

----------------------------------------------------------------------------
(* Loading the database. *)

\* The step is a call of load: answer' holds its outcome.
LoadStep == answer' # None /\ answer'.op = "load"

\* C17: load of a file whose version is not DEPS_FORMAT_VERSION raises an
\* error and leaves deps_db, modtimes_db and cmdlines_db as they were.
C17_VersionGuard ==
    [][(LoadStep /\ dbfile # None /\ dbfile.version # DEPS_FORMAT_VERSION)
          => /\ answer'.err.raised
             /\ deps_db' = deps_db
             /\ modtimes_db' = modtimes_db
             /\ cmdlines_db' = cmdlines_db]_vars

\* C17 witness: a file of version 3 holding other entries than the maps in
\* memory, which are not empty, was refused.
C17_Witness ==
    /\ answer # None
    /\ answer.op = "load"
    /\ answer.err.raised
    /\ dbfile # None
    /\ dbfile.version = 3
    /\ DOMAIN deps_db # {}
    /\ DOMAIN dbfile.deps # {}
    /\ dbfile.deps # deps_db
    /\ dbfile.cmdlines # cmdlines_db

\* db is orig overridden by file: the file's value for every key of the
\* file, the value in memory for every other key.
Overridden(db, orig, file) ==
    /\ DOMAIN db = DOMAIN orig \cup DOMAIN file
    /\ \A k \in DOMAIN file : db[k] = file[k]
    /\ \A k \in DOMAIN orig \ DOMAIN file : db[k] = orig[k]

\* C18: a load that succeeds leaves each of the three maps as it was in
\* memory, overridden by the file's map.
C18_LoadMerges ==
    [][(LoadStep /\ ~answer'.err.raised)
          => /\ Overridden(deps_db', deps_db, dbfile.deps)
             /\ Overridden(modtimes_db', modtimes_db, dbfile.modtimes)
             /\ Overridden(cmdlines_db', cmdlines_db, dbfile.cmdlines)]_vars

\* C18 witness: after a load, deps_db and cmdlines_db hold keys of the file
\* and keys the file has not, and modtimes_db the file's stamp of out.mk.
C18_Witness ==
    /\ answer # None
    /\ answer.op = "load"
    /\ ~answer.err.raised
    /\ DOMAIN dbfile.deps # {}
    /\ DOMAIN deps_db \ DOMAIN dbfile.deps # {}
    /\ DOMAIN dbfile.cmdlines # {}
    /\ DOMAIN cmdlines_db \ DOMAIN dbfile.cmdlines # {}
    /\ "out.mk" \in DOMAIN dbfile.modtimes
    /\ modtimes_db["out.mk"] = dbfile.modtimes["out.mk"]

----------------------------------------------------------------------------
(* simplify. *)

\* The values of the variables are literals, references or lists.
SimpleValues ==
    \A n \in VarNames :
        scopes[1].vars[n] # NoVar => scopes[1].vars[n].value.t \in {"lit", "ref", "list"}

\* C19: simplify applied to what simplify returned returns it unchanged.
C19_SimplifyIdempotent ==
    (/\ SimpleValues
     /\ Len(calls) = 2
     /\ calls[1].op = "simplify"
     /\ calls[2].op = "simplify"
     /\ ~calls[1].err.raised)
    => (~calls[2].err.raised /\ calls[2].value = calls[1].value)

\* The children of a ConcatExpr that are not literals, in order.
RECURSIVE NonLiterals(_)
NonLiterals(items) ==
    IF items = <<>> THEN <<>>
    ELSE IF Head(items).t = "lit" THEN NonLiterals(Tail(items))
    ELSE <<Head(items)>> \o NonLiterals(Tail(items))

\* C20: simplify of a ConcatExpr returns a ConcatExpr with at least one
\* child and no two adjacent literals, of the same text, whose other
\* children are those of the argument, simplified, in their order;
\* simplify(Concat([Lit a, Lit b, Ref a])) is Concat([Lit ab, Ref a]).
C20_ConcatFusion ==
    (/\ calls # <<>>
     /\ calls[1].op = "simplify"
     /\ calls[1].arg.t = "concat"
     /\ ~calls[1].err.raised)
    => LET e == calls[1].arg
           r == calls[1].value
           kept == NonLiterals(e.items)
       IN  /\ r.t = "concat"
           /\ Len(r.items) >= 1
           /\ \A i \in 1..(Len(r.items) - 1) :
                 ~(r.items[i].t = "lit" /\ r.items[i + 1].t = "lit")
           /\ str(r) = str(e)
           /\ Len(NonLiterals(r.items)) = Len(kept)
           /\ \A k \in 1..Len(kept) :
                 NonLiterals(r.items)[k] = simplify(scopes, kept[k]).value
           /\ e = ConcatExpr(<<LiteralExpr("a"), LiteralExpr("b"), ReferenceExpr("a", 1)>>)
                 => r = ConcatExpr(<<LiteralExpr("ab"), ReferenceExpr("a", 1)>>)

\* C21: simplify of a reference returns the value of the variable when that
\* value is a literal or a reference, and the reference itself when the
\* value is of another kind.
C21_SimplifyReference ==
    (/\ calls # <<>>
     /\ calls[1].op = "simplify"
     /\ calls[1].arg.t = "ref"
     /\ ~calls[1].err.raised)
    => LET ref == get_value(scopes, calls[1].arg).value
       IN  calls[1].value = IF ref.t \in {"lit", "ref"} THEN ref ELSE calls[1].arg

----------------------------------------------------------------------------
(* bkl/expr.py: split. *)

\* How many calls of a recursive function Python nests before it gives up.
MaxDepth == 8

RuntimeError(msg) == [raised |-> TRUE, kind |-> "RuntimeError", msg |-> msg, see |-> 0]

\* s.find(sep, i): the first place from i on where the character sep is,
\* 0 when there is none.
RECURSIVE find(_, _, _)
find(s, sep, i) ==
    IF i > Len(s) THEN 0
    ELSE IF SubSeq(s, i, i) = sep THEN i
    ELSE find(s, sep, i + 1)

\* The segments without the empty ones.
RECURSIVE str_split_skip_empty(_, _)
str_split_skip_empty(s, sep) ==
    LET i == find(s, sep, 1)
        first == IF i = 0 THEN s ELSE SubSeq(s, 1, i - 1)
        more == IF i = 0 THEN <<>> ELSE str_split_skip_empty(SubSeq(s, i + 1, Len(s)), sep)
    IN  IF first = "" THEN more ELSE <<first>> \o more

\* s.split(sep) of a Python string
RECURSIVE str_split(_, _)
str_split(s, sep) ==
    LET i == find(s, sep, 1)
    IN  IF i = 0 THEN <<s>>
        ELSE <<SubSeq(s, 1, i - 1)>> \o str_split(SubSeq(s, i + 1, Len(s)), sep)

\* Joining without a merge.
splice_side_by_side(out, i_out) == out \o i_out

\* The body of split's loop over the items of a ConcatExpr: out is the list
\* built so far, i_out the segments of the next item.
splice(out, i_out) ==
    IF out # <<>>
    THEN SubSeq(out, 1, Len(out) - 1) \o
         <<ConcatExpr(<<out[Len(out)], i_out[1]>>)>> \o
         Tail(i_out)
    ELSE i_out

\* The list split returns, or the error it raises; depth is how many more
\* calls Python can nest.
RECURSIVE split(_, _, _, _)
split(sc, e, sep, depth) ==
    IF Len(sep) # 1 THEN [err |-> AssertionError("len(sep) == 1"), values |-> <<>>]
    ELSE IF depth = 0
    THEN [err |-> RuntimeError("maximum recursion depth exceeded"), values |-> <<>>]
    ELSE CASE e.t = "lit" ->
                LET vals == str_split(e.value, sep)
                IN  [err |-> NoError, values |-> [k \in 1..Len(vals) |-> LiteralExpr(vals[k])]]
           [] e.t = "ref" ->
                LET ref == get_value(sc, e)
                IN  IF ref.err.raised THEN [err |-> ref.err, values |-> <<>>]
                    ELSE split(sc, ref.value, sep, depth - 1)
           [] e.t = "concat" ->
                LET RECURSIVE loop(_, _)
                    loop(i, out) ==
                        IF i > Len(e.items) THEN [err |-> NoError, values |-> out]
                        ELSE LET i_out == split(sc, e.items[i], sep, depth - 1)
                             IN  IF i_out.err.raised THEN [err |-> i_out.err, values |-> <<>>]
                                 ELSE loop(i + 1, splice(out, i_out.values))
                IN  loop(1, <<>>)
           [] OTHER ->
                [err |-> Error("don't know how to split expression"), values |-> <<>>]

\* split is called on the expression.
call_split(seps) ==
    /\ calls = <<>>
    /\ \E sep \in seps :
          LET r == split(scopes, expr, sep, MaxDepth)
          IN  calls' = <<[op |-> "split", arg |-> expr, sep |-> sep,
                          err |-> r.err, values |-> r.values]>>
    /\ UNCHANGED <<expr, outsideExpr>>

\* The delimiters.
Seps == {"/", "a"}

\* the variables of the module
SplitValuesOfA == {NoVar,
                   Variable(LiteralExpr("x/y"), AnyType),
                   Variable(ReferenceExpr("p", 1), AnyType),
                   Variable(ListExpr(<<LiteralExpr("2"), LiteralExpr("3")>>), ListType)}
SplitValuesOfP == {Variable(LiteralExpr("d"), AnyType),
                   Variable(ReferenceExpr("a", 1), AnyType),
                   Variable(ConcatExpr(<<LiteralExpr("/d"), ReferenceExpr("a", 1)>>), AnyType)}

SplitLiterals == {LiteralExpr(""), LiteralExpr("a"), LiteralExpr("/"), LiteralExpr("foo/bar"),
                  LiteralExpr("x/y"), LiteralExpr("/a//")}
SplitAtoms == SplitLiterals \cup {ReferenceExpr("a", 1), ReferenceExpr("p", 1), NullExpr}
SplitChildren ==
    SplitAtoms \cup {ConcatExpr(<<LiteralExpr("a/"), LiteralExpr("/b")>>)}
SplitExprs ==
    SplitAtoms \cup
    {ConcatExpr(items) : items \in SeqsOf(SplitChildren, 1, MaxItems)} \cup
    {ListExpr(<<LiteralExpr("x/y")>>), PathExpr(<<LiteralExpr("x/y")>>, ANCHOR_SRCDIR)}

InitSplit ==
    /\ LedgerInit
    /\ \E a \in SplitValuesOfA, p \in SplitValuesOfP :
          scopes = <<[Module(1) EXCEPT !.vars = [n \in VarNames |-> IF n = "a" THEN a ELSE p]]>>
    /\ configurations = <<Configuration("Debug", "", <<>>, 0),
                          Configuration("Release", "", <<>>, 0)>>
    /\ context = 0
    /\ conds = <<>>
    /\ stack = <<>>
    /\ trace = <<>>
    /\ err = NoError
    /\ submodules = <<>>
    /\ expr \in SplitExprs
    /\ calls = <<>>
    /\ IoInit

NextSplit ==
    \/ call_split(Seps)

SpecSplit == InitSplit /\ [][NextSplit]_vars

\* The call of split made, if any.
SplitCall == calls # <<>> /\ calls[1].op = "split"

\* How many times the character c is in s.
RECURSIVE Occurrences(_, _)
Occurrences(s, c) ==
    IF s = "" THEN 0
    ELSE (IF SubSeq(s, 1, 1) = c THEN 1 ELSE 0) + Occurrences(SubSeq(s, 2, Len(s)), c)

\* The texts of the expressions, joined with c.
JoinedText(es, c) == str_join(c, [k \in 1..Len(es) |-> str(es[k])])

\* C22: split of a literal by a character yields literals only, one more than
\* the character occurs in the literal's text, and their texts joined with
\* the character are the literal's text.
C22_SplitRoundTrip ==
    (SplitCall /\ calls[1].arg.t = "lit")
    => LET r == calls[1]
       IN  /\ ~r.err.raised
           /\ \A k \in 1..Len(r.values) : r.values[k].t = "lit"
           /\ Len(r.values) = Occurrences(r.arg.value, r.sep) + 1
           /\ JoinedText(r.values, r.sep) = r.arg.value

C22_Witness ==
    /\ SplitCall
    /\ calls[1].arg = LiteralExpr("/a//")
    /\ calls[1].sep = "/"
    /\ Len(calls[1].values) = 4
    /\ calls[1].values[1] = LiteralExpr("")
    /\ calls[1].values[4] = LiteralExpr("")

\* The text of an expression that can be split, the references in it
\* replaced by the values of their variables.
RECURSIVE ResolvedText(_, _, _)
ResolvedText(sc, e, depth) ==
    IF depth = 0 THEN ""
    ELSE CASE e.t = "lit" -> e.value
           [] e.t = "ref" -> ResolvedText(sc, get_value(sc, e).value, depth - 1)
           [] e.t = "concat" ->
                str_join("", [i \in 1..Len(e.items) |-> ResolvedText(sc, e.items[i], depth - 1)])
           [] OTHER -> ""

\* The sum of the numbers
RECURSIVE Sum(_)
Sum(ns) == IF ns = <<>> THEN 0 ELSE Head(ns) + Sum(Tail(ns))

\* C23: split of a ConcatExpr whose n children can all be split yields the
\* children's segments, the last segment of a child and the first of the
\* next merged into one ConcatExpr: the segments are n - 1 fewer than those of
\* the children together, their texts joined with the delimiter are the text
\* of the concatenation, and split of "foo/bar" ++ "x/y" by "/" is
\* [foo, Concat[bar, x], y].
C23_SplitConcat ==
    (SplitCall /\ calls[1].arg.t = "concat" /\ ~calls[1].err.raised)
    => LET r == calls[1]
           e == r.arg
           n == Len(e.items)
           parts == [i \in 1..n |-> split(scopes, e.items[i], r.sep, MaxDepth).values]
       IN  /\ Len(r.values) = Sum([i \in 1..n |-> Len(parts[i])]) - (n - 1)
           /\ JoinedText(r.values, r.sep) = ResolvedText(scopes, e, MaxDepth)
           /\ (\A i \in 1..n : e.items[i].t = "lit") => JoinedText(r.values, r.sep) = str(e)
           /\ n = 2 =>
                 r.values = SubSeq(parts[1], 1, Len(parts[1]) - 1) \o
                            <<ConcatExpr(<<parts[1][Len(parts[1])], parts[2][1]>>)>> \o
                            Tail(parts[2])
           /\ (e = ConcatExpr(<<LiteralExpr("foo/bar"), LiteralExpr("x/y")>>) /\ r.sep = "/")
                 => r.values = <<LiteralExpr("foo"),
                                 ConcatExpr(<<LiteralExpr("bar"), LiteralExpr("x")>>),
                                 LiteralExpr("y")>>

C23_Witness ==
    /\ SplitCall
    /\ ~calls[1].err.raised
    /\ calls[1].arg = ConcatExpr(<<LiteralExpr("foo/bar"), LiteralExpr("x/y")>>)
    /\ calls[1].sep = "/"
    /\ Len(calls[1].values) = 3
    /\ calls[1].values[2].t = "concat"

----------------------------------------------------------------------------
(* bkl/expr.py: all_possible_values and all_possible_elements, called on  *)
(* the expression and iterated to the end.                                *)

call_all_possible_values ==
    /\ calls = <<>>
    /\ LET r == all_possible_values(scopes, expr)
       IN  calls' = <<[op |-> "all_possible_values", arg |-> expr,
                       err |-> r.err, values |-> r.values]>>
    /\ UNCHANGED <<expr, outsideExpr>>

call_all_possible_elements ==
    /\ calls = <<>>
    /\ LET r == all_possible_elements(scopes, expr)
       IN  calls' = <<[op |-> "all_possible_elements", arg |-> expr,
                       err |-> r.err, values |-> r.values]>>
    /\ UNCHANGED <<expr, outsideExpr>>

NextValues ==
    \/ call_all_possible_values
    \/ call_all_possible_elements

SpecValues == InitExpr /\ [][NextValues]_vars

\* The call of all_possible_values made, if any.
ValuesCall == calls # <<>> /\ calls[1].op = "all_possible_values"

\* The values are expressions.
Expressions(vs) == \A k \in 1..Len(vs) : vs[k].t # "generator"

\* C24: all_possible_values of a reference yields the expressions that
\* all_possible_values yields for the value of the variable, each of them an
\* expression.
C24_ValuesOfReference ==
    (ValuesCall /\ calls[1].arg.t = "ref" /\ ~calls[1].err.raised)
    => LET ref == get_value(scopes, calls[1].arg).value
       IN  /\ calls[1].values = all_possible_values(scopes, ref).values
           /\ Expressions(calls[1].values)

\* The values an expression may take, references followed to the values of
\* their variables: the sequence of values, or failed when there is none
\* (a list, a null value, an unknown variable, a cycle of references).
RECURSIVE PossibleValues(_, _, _)
PossibleValues(sc, e, depth) ==
    IF depth = 0 THEN [failed |-> TRUE, values |-> <<>>]
    ELSE CASE e.t = "lit" -> [failed |-> FALSE, values |-> <<e>>]
           [] e.t = "ref" ->
                LET ref == get_value(sc, e)
                IN  IF ref.err.raised THEN [failed |-> TRUE, values |-> <<>>]
                    ELSE PossibleValues(sc, ref.value, depth - 1)
           [] e.t \in {"concat", "path"} ->
                LET children == IF e.t = "concat" THEN e.items ELSE e.components
                    each == [i \in 1..Len(children) |-> PossibleValues(sc, children[i], depth - 1)]
                    combos == product([i \in 1..Len(children) |-> each[i].values])
                IN  IF \E i \in 1..Len(children) : each[i].failed
                    THEN [failed |-> TRUE, values |-> <<>>]
                    ELSE [failed |-> FALSE,
                          values |-> [k \in 1..Len(combos) |->
                                        IF e.t = "concat" THEN ConcatExpr(combos[k])
                                        ELSE PathExpr(combos[k], e.anchor)]]
           [] OTHER -> [failed |-> TRUE, values |-> <<>>]

\* The product of the numbers
RECURSIVE Product(_)
Product(ns) == IF ns = <<>> THEN 1 ELSE Head(ns) * Product(Tail(ns))

\* C25: all_possible_values of a ConcatExpr or a PathExpr yields one
\* ConcatExpr, or one PathExpr of the same anchor, for every element of the
\* product of its children's possible values, each with as many children as
\* the argument; all_possible_values of a ListExpr is an error.
C25_ValuesOfConcat ==
    /\ (ValuesCall /\ calls[1].arg.t = "list") => calls[1].err.raised
    /\ (/\ ValuesCall
        /\ calls[1].arg.t \in {"concat", "path"}
        /\ ~PossibleValues(scopes, calls[1].arg, MaxDepth).failed)
       => LET e == calls[1].arg
              children == IF e.t = "concat" THEN e.items ELSE e.components
              counts == [i \in 1..Len(children) |->
                            Len(PossibleValues(scopes, children[i], MaxDepth).values)]
              vs == calls[1].values
          IN  /\ ~calls[1].err.raised
              /\ Len(vs) = Product(counts)
              /\ vs = PossibleValues(scopes, e, MaxDepth).values
              /\ \A k \in 1..Len(vs) :
                    /\ vs[k].t = e.t
                    /\ e.t = "concat" => Len(vs[k].items) = Len(children)
                    /\ e.t = "path" => (/\ Len(vs[k].components) = Len(children)
                                        /\ vs[k].anchor = e.anchor)

\* The call of all_possible_elements made, if any.
ElementsCall == calls # <<>> /\ calls[1].op = "all_possible_elements"

\* The possible elements of a list, the references that are items of the list
\* followed first.
RECURSIVE ListElements(_, _)
ListElements(sc, items) ==
    IF items = <<>> THEN [failed |-> FALSE, values |-> <<>>]
    ELSE LET first == PossibleValues(sc, Head(items), MaxDepth)
             more == ListElements(sc, Tail(items))
         IN  [failed |-> first.failed \/ more.failed, values |-> first.values \o more.values]

\* The values without those of the text of an earlier one.
RECURSIVE FirstOfEachText(_, _)
FirstOfEachText(vs, seen) ==
    IF vs = <<>> THEN <<>>
    ELSE IF str(Head(vs)) \in seen THEN FirstOfEachText(Tail(vs), seen)
    ELSE <<Head(vs)>> \o FirstOfEachText(Tail(vs), seen \cup {str(Head(vs))})

\* C26: all_possible_elements of a list yields no two elements of the same
\* text: each text among the possible elements of the list is yielded once,
\* in the order of first occurrence.
C26_ElementsDeduplicated ==
    (/\ ElementsCall
     /\ calls[1].arg.t = "list"
     /\ ~ListElements(scopes, calls[1].arg.items).failed)
    => LET vs == calls[1].values
       IN  /\ ~calls[1].err.raised
           /\ Expressions(vs)
           /\ \A j, k \in 1..Len(vs) : str(vs[j]) = str(vs[k]) => j = k
           /\ vs = FirstOfEachText(ListElements(scopes, calls[1].arg.items).values, {})

----------------------------------------------------------------------------
(* bkl/expr.py: as_py. *)

\* Python values: a string, a list, None.
PyStr(s) == [t |-> "str", s |-> s]
PyList(items) == [t |-> "pylist", items |-> items]
PyNone == [t |-> "NoneType"]

NonConstError(e) == [raised |-> TRUE, kind |-> "NonConstError", msg |-> str(e), see |-> 0]
TypeError == [raised |-> TRUE, kind |-> "TypeError", msg |-> "expected string", see |-> 0]
NotImplementedError == [raised |-> TRUE, kind |-> "NotImplementedError", msg |-> "", see |-> 0]

\* An EvalContext with the directory separator set.
EvalContext(dirsep) == [dirsep |-> dirsep, outdir |-> None, topdir |-> None]

\* sep.join(values) of Python values: a TypeError unless all are strings.
py_join(sep, values) ==
    IF \E i \in 1..Len(values) : values[i].t # "str"
    THEN [err |-> TypeError, value |-> PyNone]
    ELSE [err |-> NoError,
          value |-> PyStr(str_join(sep, [i \in 1..Len(values) |-> values[i].s]))]

\* e.as_py(ctxt) where os.path.sep is os_path_sep; NoContext is the default
\* of the parameter, None.
NoContext == [dirsep |-> None, outdir |-> None, topdir |-> None]

RECURSIVE as_py(_, _, _)
as_py(e, ctxt, os_path_sep) ==
    CASE e.t = "lit" -> [err |-> NoError, value |-> PyStr(e.value)]
      [] e.t = "list" ->
            LET rs == [i \in 1..Len(e.items) |-> as_py(e.items[i], ctxt, os_path_sep)]
            IN  IF first_error(rs).raised THEN [err |-> first_error(rs), value |-> PyNone]
                ELSE [err |-> NoError, value |-> PyList([i \in 1..Len(rs) |-> rs[i].value])]
      [] e.t = "concat" ->
            LET rs == [i \in 1..Len(e.items) |-> as_py(e.items[i], ctxt, os_path_sep)]
            IN  IF first_error(rs).raised THEN [err |-> first_error(rs), value |-> PyNone]
                ELSE py_join("", [i \in 1..Len(rs) |-> rs[i].value])
      [] e.t = "null" -> [err |-> NoError, value |-> PyNone]
      [] e.t = "ref" -> [err |-> NonConstError(e), value |-> PyNone]
      [] e.t = "path" ->
            LET comp == [i \in 1..Len(e.components) |->
                            as_py(e.components[i], NoContext, os_path_sep)]
            IN  IF first_error(comp).raised THEN [err |-> first_error(comp), value |-> PyNone]
                ELSE py_join(os_path_sep, [i \in 1..Len(comp) |-> comp[i].value])
      [] OTHER -> [err |-> NotImplementedError, value |-> PyNone]

\* as_py is called on the expression with a context, on a platform.
call_as_py(dirseps, os_path_seps) ==
    /\ calls = <<>>
    /\ \E dirsep \in dirseps, os_path_sep \in os_path_seps :
          LET r == as_py(expr, EvalContext(dirsep), os_path_sep)
          IN  calls' = <<[op |-> "as_py", arg |-> expr, ctxt |-> EvalContext(dirsep),
                          os_path_sep |-> os_path_sep, err |-> r.err, value |-> r.value]>>
    /\ UNCHANGED <<expr, outsideExpr>>

\* The directory separators: of Unix and of Windows.
DirSeps == {"/", "\\"}

NextNative ==
    \/ call_as_py(DirSeps, DirSeps)

SpecNative == InitExpr /\ [][NextNative]_vars

\* The call of as_py made, if any.
NativeCall == calls # <<>> /\ calls[1].op = "as_py"

\* There is a reference in the expression.
RECURSIVE HasReference(_)
HasReference(e) ==
    CASE e.t = "ref" -> TRUE
      [] e.t \in {"concat", "list"} -> \E i \in 1..Len(e.items) : HasReference(e.items[i])
      [] e.t = "path" -> \E i \in 1..Len(e.components) : HasReference(e.components[i])
      [] OTHER -> FALSE

\* C27: as_py of a PathExpr with a context returns the values of its
\* components, evaluated with the context, joined with the context's
\* directory separator; as_py of a ListExpr, ConcatExpr or PathExpr with a
\* reference in it raises NonConstError.
C27_NativePath ==
    /\ (NativeCall /\ calls[1].arg.t = "path" /\ ~calls[1].err.raised)
       => LET c == calls[1]
              comp == [i \in 1..Len(c.arg.components) |->
                          as_py(c.arg.components[i], c.ctxt, c.os_path_sep).value]
          IN  c.value = py_join(c.ctxt.dirsep, comp).value
    /\ (NativeCall /\ calls[1].arg.t \in {"list", "concat", "path"} /\ HasReference(calls[1].arg))
       => calls[1].err.kind = "NonConstError"

----------------------------------------------------------------------------
(* bkl/io.py: OutputFile.  A file name is the sequence of its components, *)
(* relative to the current directory; the disk maps names to entries.     *)

MaxText == 2
MaxCommits == 2

EOL_WINDOWS == "win"
EOL_UNIX == "unix"

\* A regular file with its content.
FileWith(mtime, content) == [kind |-> "file", mtime |-> mtime, content |-> content]

\* OutputFile(filename, eol)
OutputFile(filename, eol) == [filename |-> filename, eol |-> eol, text |-> ""]

\* text.replace("\n", "\r\n")
RECURSIVE replace_newlines(_)
replace_newlines(text) ==
    IF text = "" THEN ""
    ELSE (IF SubSeq(text, 1, 1) = "\n" THEN "\r\n" ELSE SubSeq(text, 1, 1))
         \o replace_newlines(SubSeq(text, 2, Len(text)))

\* The text commit compares and writes.
convert_eol(eol, text) == IF eol = EOL_WINDOWS THEN replace_newlines(text) ELSE text

\* The names of the directories above a file, and the directory itself.
Prefixes(path) == {SubSeq(path, 1, k) : k \in 1..Len(path)}

\* os.path.isdir(name); the empty name is the current directory.
isdir(dsk, name) == name = <<>> \/ dsk[name].kind = "dir"

\* with open(filename, "rb") as f: f.read()
open_rb(dsk, filename) ==
    IF dsk[filename].kind = "file"
    THEN [err |-> NoError, content |-> dsk[filename].content]
    ELSE [err |-> IOError, content |-> ""]

\* os.makedirs(name) at time t: the missing directories are made, and a
\* directory a new entry is made in is modified.
makedirs(dsk, name, t) ==
    IF \E p \in Prefixes(name) : dsk[p].kind = "file"
    THEN [err |-> OSError, disk |-> dsk]
    ELSE [err |-> NoError,
          disk |-> [p \in DOMAIN dsk |->
                      IF p \in Prefixes(name) /\ dsk[p].kind = "none" THEN Directory(t)
                      ELSE IF /\ p \in Prefixes(name)
                              /\ p # name
                              /\ dsk[SubSeq(name, 1, Len(p) + 1)].kind = "none"
                           THEN Directory(t)
                      ELSE dsk[p]]]

\* with open(filename, "wb") as f: f.write(text), at time t
open_wb(dsk, filename, text, t) ==
    IF dsk[filename].kind = "dir" \/ ~isdir(dsk, dirname(filename))
    THEN [err |-> IOError, disk |-> dsk]
    ELSE [err |-> NoError,
          disk |-> [p \in DOMAIN dsk |->
                      IF p = filename THEN FileWith(t, text)
                      ELSE IF p = dirname(filename) /\ dsk[filename].kind = "none"
                           THEN Directory(t)
                      ELSE dsk[p]]]

\* A record handed to the logger.
LogRecord(msg, filename, note) == [msg |-> msg, filename |-> filename, note |-> note]

\* Every content is taken for new.
unchanged_never(old, text) == FALSE

\* old == self.text, old being None when the file could not be read
unchanged(old, text) == ~old.err.raised /\ old.content = text

\* OutputFile.commit() at time t: the exception raised if any, the disk and
\* the object's text it leaves, and the record it logs.
commit(out, dsk, dry, t) ==
    LET text == convert_eol(out.eol, out.text)
        old == open_rb(dsk, out.filename)
        note == IF dry THEN " (dry run)" ELSE ""
        dn == dirname(out.filename)
        made == IF dn # <<>> /\ ~isdir(dsk, dn) THEN makedirs(dsk, dn, t)
                ELSE [err |-> NoError, disk |-> dsk]
        written == open_wb(made.disk, out.filename, text, t)
    IN  IF unchanged(old, text)
        THEN [err |-> NoError, disk |-> dsk, text |-> text,
              log |-> LogRecord("no changes in file", out.filename, "")]
        ELSE LET rec == LogRecord(IF old.err.raised THEN "creating file" ELSE "updating file",
                                  out.filename, note)
             IN  IF dry THEN [err |-> NoError, disk |-> dsk, text |-> text, log |-> rec]
                 ELSE IF made.err.raised
                 THEN [err |-> made.err, disk |-> dsk, text |-> text, log |-> rec]
                 ELSE IF written.err.raised
                 THEN [err |-> written.err, disk |-> made.disk, text |-> text, log |-> rec]
                 ELSE [err |-> NoError, disk |-> written.disk, text |-> text, log |-> rec]

\* What bkl/io.py leaves alone.
outsideIo == <<builderVars, exprVars, deps_db, modtimes_db, cmdlines_db, dbfile, answer>>

\* OutputFile.write(text) with a byte string
write(texts) ==
    /\ Len(output.text) < MaxText
    /\ \E text \in texts : output' = [output EXCEPT !.text = @ \o text]
    /\ raised' = NoError
    /\ UNCHANGED <<dry_run, log, ran, disk, now, outsideIo>>

commit_output ==
    /\ Len(log) < MaxCommits
    /\ LET r == commit(output, disk, dry_run, now)
       IN  /\ output' = [output EXCEPT !.text = r.text]
           /\ disk' = r.disk
           /\ log' = Append(log, r.log)
           /\ raised' = r.err
    /\ UNCHANGED <<dry_run, ran, now, outsideIo>>

\* The inputs: the names of the output files, the entries of the disk (every
\* one in a directory), the texts written.
Filenames == {<<"out">>, <<"d", "e", "out">>}
Names == UNION {Prefixes(f) : f \in Filenames}
FileContents == {"a\n", "a\r\n"}
Texts == {"a\n", "b"}
Entries == {NoFile, Directory(0)} \cup {FileWith(0, c) : c \in FileContents}
Disks == {d \in [Names -> Entries] :
             \A p \in Names : d[p].kind # "none" => isdir(d, dirname(p))}

InitOutput ==
    /\ BuilderInit
    /\ ExprInit
    /\ deps_db = EmptyDb
    /\ modtimes_db = EmptyDb
    /\ cmdlines_db = EmptyDb
    /\ dbfile = None
    /\ answer = None
    /\ disk \in Disks
    /\ now = 1
    /\ output \in {OutputFile(f, eol) : f \in Filenames, eol \in {EOL_WINDOWS, EOL_UNIX}}
    /\ dry_run \in BOOLEAN
    /\ log = <<>>
    /\ raised = NoError
    /\ ran = None

NextOutput ==
    \/ write(Texts)
    \/ commit_output
    \/ tick

SpecOutput == InitOutput /\ [][NextOutput]_vars

\* The step is a call of commit.
CommitStep == Len(log') = Len(log) + 1

\* The content of the file on the disk is the text.
Holds(dsk, filename, text) == dsk[filename].kind = "file" /\ dsk[filename].content = text

----------------------------------------------------------------------------
(* The builder's context and stack of conditions around a statement. *)

MaxBuildNodes == 4

BuildConfigNodes ==
    {ConfigurationNode("Debug", "", <<AssignmentNode("a", LiteralNode("1"))>>),
     ConfigurationNode("Fast", "Debug", <<AppendNode("a", LiteralNode("4"))>>)}

\* Statements of every kind, nested, of one module.
NextBuild ==
    \/ create_model(1)
    \/ end_model
    \/ assignment({AssignmentNode("a", LiteralNode("1")), AppendNode("a", LiteralNode("4"))},
                  MaxBuildNodes)
    \/ files_list({FilesListNode("sources", ListNode(<<LiteralNode("a.c")>>))}, MaxBuildNodes)
    \/ if_block(IfNodes, MaxBuildNodes)
    \/ end_if
    \/ target({TargetNode("exe", "t1"), TargetNode("exe", "t2")}, MaxBuildNodes)
    \/ end_target
    \/ configuration(BuildConfigNodes, MaxBuildNodes)
    \/ configuration_child
    \/ end_configuration

SpecBuild == Init /\ [][NextBuild]_vars

\* The stack of conditions inside the nested handlers: an if block and a
\* configuration have pushed a condition, a target has reset the stack.
RECURSIVE CondsInside(_)
CondsInside(frames) ==
    IF frames = <<>> THEN <<>>
    ELSE LET f == frames[Len(frames)]
             below == CondsInside(SubSeq(frames, 1, Len(frames) - 1))
         IN  CASE f.kind = "if" -> push_cond(below, build_expression(f.node.cond, f.ctx))
               [] f.kind = "config" -> push_cond(below, config_cond(f.node, f.ctx))
               [] f.kind = "target" -> <<>>
               [] OTHER -> below

\* C29: while no error is raised, the stack of conditions and the context
\* are those of the enclosing statements alone: a statement that has been
\* handled leaves both as they were before it, a block that ends leaves the
\* enclosing blocks as they were when it began, and create_model ends with
\* the created module as context and no condition.
C29_BalancedStack ==
    [][~err'.raised =>
          /\ stack' # <<>> => /\ conds' = CondsInside(stack')
                              /\ context' = stack'[Len(stack')].scope
          /\ (stack # <<>> /\ Len(stack') >= Len(stack))
                => SubSeq(stack', 1, Len(stack) - 1) = SubSeq(stack, 1, Len(stack) - 1)
          /\ (stack # <<>> /\ Len(stack') = Len(stack) + 1)
                => SubSeq(stack', 1, Len(stack)) = stack
          /\ (stack' # <<>> /\ Len(stack') = Len(stack) - 1)
                => /\ stack' = SubSeq(stack, 1, Len(stack) - 1)
                   /\ context' = top.ctx
          /\ (Len(trace') > Len(trace) /\ Len(stack') = Len(stack))
                => (conds' = conds /\ context' = context)
          /\ (stack # <<>> /\ stack' = <<>>)
                => /\ context' = stack[1].scope
                   /\ scopes[context'].kind = "module"
                   /\ conds' = <<>>]_vars

C29_Witness ==
    /\ ~err.raised
    /\ Len(trace) = 4
    /\ trace[1].node.t = "IfNode"
    /\ trace[2].node.t = "TargetNode"
    /\ trace[3].node.t = "IfNode"
    /\ trace[3].context = 2
    /\ trace[3].cond = None
    /\ trace[4].node.t = "AssignmentNode"
    /\ trace[4].context = 1
    /\ trace[4].cond = trace[2].cond
    /\ trace[4].cond # None
    /\ conds = <<build_expression(trace[1].node.cond, 1)>>
    /\ context = 1

----------------------------------------------------------------------------
(* Assignments in a target to a variable of its module. *)

\* C30: a set or an append in a target to a name that has a variable in the
\* module, none in the target and no property of the target makes a variable
\* of the target, seeded with the module's variable (its type; for an append
\* and for the other branch of a conditional set, its value), and leaves the
\* module's variable, value and type, as it was.
C30_InnerScopeCopy ==
    [][(/\ HandlesNode
        /\ ThisEvent.node.t \in {"AssignmentNode", "AppendNode"}
        /\ scopes[ThisEvent.context].kind = "target"
        /\ scopes[ThisEvent.context].vars[ThisEvent.node.var] = NoVar
        /\ scopes[scopes[ThisEvent.context].parent].vars[ThisEvent.node.var] # NoVar
        /\ get_prop("target", ThisEvent.node.var) = NoProp)
       => LET s == ThisEvent.context
              n == ThisEvent.node.var
              c == ThisEvent.cond
              outer == scopes[scopes[s].parent].vars[n]
              value == build_expression(ThisEvent.node.value, s)
              items == ItemsOf(value)
              new == [i \in 1..Len(items) |->
                         IF c = None THEN items[i] ELSE IfExpr(c, items[i], NullExpr)]
              inner == scopes'[s].vars[n]
          IN  /\ ~err'.raised
              /\ \A o \in 1..Len(scopes) : o # s => scopes'[o] = scopes[o]
              /\ inner # NoVar
              /\ ThisEvent.node.t = "AssignmentNode" =>
                    /\ inner.type = outer.type
                    /\ inner.value = IF c = None THEN value ELSE IfExpr(c, value, outer.value)
              /\ ThisEvent.node.t = "AppendNode" =>
                    /\ inner.type = ListType
                    /\ inner.value = ListExpr(ItemsOf(outer.value) \o new)]_vars

\* C30 witness: a = "1"; target t1 { a += "1" }: the target has the list
\* ["1", "1"], the module still the untyped "1".
C30_Witness ==
    \E s \in 1..Len(scopes) :
        /\ scopes[s].kind = "target"
        /\ scopes[s].vars["a"] =
              Variable(ListExpr(<<LiteralExpr("1"), LiteralExpr("1")>>), ListType)
        /\ scopes[scopes[s].parent].vars["a"] = Variable(LiteralExpr("1"), AnyType)
        /\ trace[Len(trace)].node = AppendNode("a", LiteralNode("1"))
        /\ trace[Len(trace)].context = s
        /\ ~err.raised

\* C33: needsUpdate is total: whatever the ledger and the file system hold,
\* it returns a decision (1 or 0) and raises no error.
C33_NeedsUpdateTotal ==
    Asked => (~answer.err.raised /\ answer.value \in {0, 1})

\* C32: when an append raises "cannot append to non-list variable", the
\* current scope has the variables, values and types it had before the
\* statement: no local variable has been added to it.
C32_AppendErrorLeavesScope ==
    [][(/\ HandlesNode
        /\ ThisEvent.node.t = "AppendNode"
        /\ err'.raised
        /\ err'.msg = "cannot append to non-list variable")
       => scopes'[ThisEvent.context].vars = scopes[ThisEvent.context].vars]_vars

----------------------------------------------------------------------------
(* A generation run followed by the staleness decision. *)

\* The disk after the run has committed its outputs at time t: an output
\* whose content is what the file already holds is left alone, any other is
\* written.
commit_outputs(dsk, outputs, same, t) ==
    [f \in DOMAIN dsk |->
        IF (\E i \in 1..Len(outputs) : outputs[i] = f) /\ f \notin same
        THEN RegularFile(t) ELSE dsk[f]]

\* addDependency called for each file of a list.
RECURSIVE add_dependencies(_, _, _, _)
add_dependencies(deps, bakefile, format, files) ==
    IF files = <<>> THEN deps
    ELSE add_dependencies(addDependency(deps, bakefile, format, Head(files)),
                          bakefile, format, Tail(files))

\* addOutput called for each file of a list, at time t.
RECURSIVE add_outputs(_, _, _, _, _, _, _)
add_outputs(deps, modtimes, bakefile, format, files, method, t) ==
    IF files = <<>> THEN [deps |-> deps, modtimes |-> modtimes]
    ELSE LET r == addOutput(deps, modtimes, bakefile, format, Head(files), method, t)
         IN  add_outputs(r.deps, r.modtimes, bakefile, format, Tail(files), method, t)

\* What a run leaves in the history.
Run(bakefile, format, cmdline, outputs, t) ==
    [bakefile |-> bakefile, format |-> format, cmdline |-> cmdline,
     outputs |-> {outputs[i] : i \in 1..Len(outputs)}, at |-> t]

\* One run of the generator over a bakefile, at one instant: it reads the
\* bakefile and the files it includes, commits every output, and records
\* the dependencies, every output and the command line.
generation_run(bakefiles, formats, cmdlines, deplists, outlists, methods) ==
    /\ \E b \in bakefiles, f \in formats, c \in cmdlines, ds \in deplists,
          os \in outlists, m \in methods :
        \E same \in SUBSET {o \in OutputFiles : isfile(disk, o)} :
            LET key == <<b, f>>
                deps == add_dependencies(deps_db, b, f, ds)
                r == add_outputs(deps, modtimes_db, b, f, os, m, now)
            IN  /\ isfile(disk, b)
                /\ \A i \in 1..Len(ds) : isfile(disk, ds[i])
                /\ \A i \in 1..Len(os) : disk[os[i]].kind # "dir"
                /\ same \subseteq {os[i] : i \in 1..Len(os)}
                /\ Len(r.deps[key].deps) <= MaxDeps
                /\ Len(r.deps[key].outputs) <= MaxOutputs
                /\ disk' = commit_outputs(disk, os, same, now)
                /\ deps_db' = r.deps
                /\ modtimes_db' = r.modtimes
                /\ cmdlines_db' = addCmdLine(cmdlines_db, b, f, c)
                /\ ran' = Run(b, f, c, os, now)
    /\ answer' = None
    /\ UNCHANGED <<now, dbfile, builderVars, exprVars, output, dry_run, log, raised>>

DepLists == {<<>>, <<"inc.bkl">>}
OutLists == {<<"out.mk">>, <<"out.mk", "out2.mk">>}

\* Every file is there or not when the program starts; those that are were
\* written at time 0.
InitRun ==
    /\ BuilderInit
    /\ ExprInit
    /\ IoInit
    /\ deps_db = EmptyDb
    /\ modtimes_db = EmptyDb
    /\ cmdlines_db = EmptyDb
    /\ disk \in [Files -> {NoFile, RegularFile(0)}]
    /\ now = 0
    /\ dbfile = None
    /\ answer = None

\* Runs of the generator, edits of the files, and the staleness decision.
NextRun ==
    \/ generation_run(Bakefiles, {"gnu"}, CmdLines, DepLists, OutLists, Methods)
    \/ touch(Files)
    \/ remove(Files)
    \/ needs_update(Bakefiles, {"gnu"}, CmdLines)
    \/ tick

SpecRun == InitRun /\ [][NextRun]_vars

\* C31: after a run that recorded every output and the command line, when
\* every output and dependency is a file on disk and neither the bakefile
\* nor a dependency was modified after the run, needsUpdate with the same
\* command line returns false.
C31_UpToDateAfterRun ==
    (/\ Asked
     /\ ran # None
     /\ AskedKey = <<ran.bakefile, ran.format>>
     /\ answer.cmdline = ran.cmdline
     /\ DeclaredOutputs(AskedKey) = ran.outputs
     /\ \A o \in DeclaredOutputs(AskedKey) : isfile(disk, o)
     /\ \A d \in DeclaredDeps(AskedKey) : isfile(disk, d) /\ disk[d].mtime <= ran.at
     /\ isfile(disk, answer.bakefile)
     /\ disk[answer.bakefile].mtime <= ran.at)
    => (~answer.err.raised /\ answer.value = 0)

====
